---- MODULE Spec2Model ----
(***************************************************************************)
(* State-machine model of the TFS -> git fast-import exporter:             *)
(* tfsdb.fastexport_commands driven by main.cmd_fastexport, together with  *)
(* the iterators of tfsdb.Repository10, the content materialisation of     *)
(* tfsdb.FileContentChange and the scratch storage of tempdir.TempDir.     *)
(*                                                                         *)
(* Strings and paths are sequences of symbols (one-character strings, a    *)
(* branch name or a file extension being one symbol).  Byte strings are    *)
(* run-length encoded: a sequence of runs [n |-> count, v |-> byte].       *)
(***************************************************************************)
EXTENDS Integers, Sequences, FiniteSets, TLC

\* ------------------------------------------------------------------ bounds

\* Changeset ids of tbl_ChangeSet are drawn from 1..MaxCs.
MaxCs == 3

\* Constructor, create and read calls on a TempDir used on its own.
MaxTdOps == 4

\* Longest path, in symbols, the path functions are called on, and the number
\* of times tfs_unmangle_path is applied in a row.
MaxPathLen == 3
MaxApply == 2

\* Longest delta chain of the item whose revisions are requested on their own,
\* and the number of content() requests made.
MaxChain == 3

\* Longest sequence an iterator is built over on its own.
MaxIterLen == 3
MaxRequests == 2

\* Calls of generate_mark in the allocator specification.
MaxAllocs == 4

\* ----------------------------------------------------------- Python values

\* Python's None where a string (branch name) is expected.
None == "<None>"

\* Python's None where an integer (changeset id, mark) is expected.
NoneInt == 0 - 1

\* An optional str: None or a sequence of symbols.
NoneStr == [isNone |-> TRUE, s |-> <<>>]

Str(s) == [isNone |-> FALSE, s |-> s]

\* Truth value of an optional str: None and "" are falsy.
StrTruthy(p) == (~p.isNone) /\ p.s # <<>>

\* ------------------------------------------------------------- byte strings

RECURSIVE BytesLen(_)
BytesLen(b) == IF b = <<>> THEN 0 ELSE Head(b).n + BytesLen(Tail(b))

\* Canonical run-length form: no empty run, no two adjacent runs of one byte.
RECURSIVE Normalize(_)
Normalize(b) ==
    IF b = <<>> THEN <<>>
    ELSE IF Head(b).n = 0 THEN Normalize(Tail(b))
    ELSE LET rest == Normalize(Tail(b)) IN
         IF rest # <<>> /\ Head(rest).v = Head(b).v
         THEN <<[n |-> Head(b).n + Head(rest).n, v |-> Head(b).v]>> \o Tail(rest)
         ELSE <<Head(b)>> \o rest

\* b''.join(blocks)
RECURSIVE Join(_)
Join(blocks) == IF blocks = <<>> THEN <<>> ELSE Normalize(Head(blocks) \o Join(Tail(blocks)))

RECURSIVE ByteSum(_)
ByteSum(b) == IF b = <<>> THEN 0 ELSE Head(b).n * (Head(b).v + 1) + ByteSum(Tail(b))

\* hashlib.md5 over the bytes fed to it, as a small digest of the byte string.
md5(b) == (ByteSum(b) + 3 * BytesLen(b)) % 13

\* ------------------------------------------------------------ decompression

\* First byte of a gzip stream (stands for the gzip header).
GzipMagic == 2

\* Whether zlib accepts the block sequence as one gzip stream.
IsGzip(blocks) == blocks # <<>> /\ Head(blocks) # <<>> /\ Head(Head(blocks)).v = GzipMagic

\* zlib.decompressobj(MAX_WBITS | 16): the header leaves the first block, the
\* payload of every block comes out block by block.
Inflate(blocks) ==
    [i \in 1..Len(blocks) |->
        IF i = 1
        THEN Normalize(<<[n |-> Head(blocks[1]).n - 1, v |-> GzipMagic]>> \o Tail(blocks[1]))
        ELSE blocks[i]]

\* tfs_decompress: ok is FALSE where the call raises (unexpected compression
\* type); bad is TRUE where the returned generator raises once it is iterated
\* (zlib rejects the stream).
tfs_decompress(compression_type, blocks) ==
    IF compression_type = 0 THEN [ok |-> TRUE, bad |-> FALSE, blocks |-> blocks]
    ELSE IF compression_type = 1
         THEN IF IsGzip(blocks) THEN [ok |-> TRUE, bad |-> FALSE, blocks |-> Inflate(blocks)]
                                ELSE [ok |-> TRUE, bad |-> TRUE, blocks |-> <<>>]
         ELSE [ok |-> FALSE, bad |-> FALSE, blocks |-> <<>>]

\* -------------------------------------------------------------------- paths

\* str.replace of one symbol by another.
Replace(s, a, b) == [i \in 1..Len(s) |-> IF s[i] = a THEN b ELSE s[i]]

\* Fault: the last symbol is cut off whatever it is.
tfs_unmangle_path_alwaysStrip(path) ==
    LET tmp == Replace(Replace(Replace(path, ">", "_"), "\"", "-"), "|", "%") IN
    IF tmp # <<>> THEN SubSeq(tmp, 1, Len(tmp) - 1) ELSE tmp

\* tfs_unmangle_path
tfs_unmangle_path(path) ==
    LET tmp == Replace(Replace(Replace(path, ">", "_"), "\"", "-"), "|", "%") IN
    IF tmp # <<>> /\ tmp[Len(tmp)] = "\\" THEN SubSeq(tmp, 1, Len(tmp) - 1) ELSE tmp

\* git_mangle_path
git_mangle_path(path) == Replace(path, "\\", "/")

\* Fault: only the missing and the empty path are refused.
check_path_nonEmpty(p) == ~(p.isNone \/ p.s = <<>>)

\* fastimport.check_path: TRUE where the path is legal.
check_path(p) == ~(p.isNone \/ p.s = <<>> \/ p.s[1] = "/")

\* The concatenation of a sequence of sequences.
RECURSIVE Flatten(_)
Flatten(ss) == IF ss = <<>> THEN <<>> ELSE Head(ss) \o Flatten(Tail(ss))

\* The replacement template of re.sub as the re module expands it: a backslash
\* followed by n stands for a newline, every other symbol for itself.
RECURSIVE re_expand(_)
re_expand(repl) ==
    IF repl = <<>> THEN <<>>
    ELSE IF Len(repl) >= 2 /\ repl[1] = "\\" /\ repl[2] = "n"
    THEN <<"\n">> \o re_expand(SubSeq(repl, 3, Len(repl)))
    ELSE <<Head(repl)>> \o re_expand(Tail(repl))

\* re.sub(pattern, repl, s) for a pattern of one symbol.
re_sub(pattern, repl, s) ==
    Flatten([i \in 1..Len(s) |-> IF s[i] = pattern THEN re_expand(repl) ELSE <<s[i]>>])

\* str.encode('utf-8'): one byte per ASCII symbol, two for the accented letter.
encode_utf8(s) ==
    Flatten([i \in 1..Len(s) |-> IF s[i] = "é" THEN <<"0xC3", "0xA9">> ELSE <<s[i]>>])

\* fastimport.format_path(p, quote_spaces)
format_path(p, quote_spaces) ==
    LET newline == \E i \in 1..Len(p) : p[i] = "\n"
        p1 == IF newline THEN re_sub("\n", <<"\\", "n">>, p) ELSE p
        quote == IF newline THEN TRUE
                 ELSE \/ (p # <<>> /\ p[1] = "\"")
                      \/ (quote_spaces /\ \E i \in 1..Len(p) : p[i] = " ")
        p2 == IF quote THEN <<"\"">> \o p1 \o <<"\"">> ELSE p1
    IN  encode_utf8(p2)

\* -------------------------------------------------------------------- hooks

\* Branch names the configured branch_extract recognises.
\* marks_last_issued = changesetId * 100
MarkStride == 100

\* Branches touched by the changeset of the "wide" family.
WideFanout == MarkStride + 2

WideBranch(i) == ToString(i)

BranchNames == {"M", "D"} \cup {WideBranch(i) : i \in 1..WideFanout}

\* hooks.branch_extract: the pattern $\<branch>(\<relpath>)? of the configuration.
branch_extract(name) ==
    IF Len(name) >= 3 /\ name[1] = "$" /\ name[2] = "\\" /\ name[3] \in BranchNames
       /\ (Len(name) > 3 => name[4] = "\\")
    THEN [branch |-> name[3],
          relpath |-> IF Len(name) > 3 THEN Str(SubSeq(name, 5, Len(name))) ELSE NoneStr]
    ELSE [branch |-> None, relpath |-> NoneStr]

\* hooks.file_filter: FALSE for the ignored extension.
file_filter(branch, relpath) == relpath[Len(relpath)] # ".bak"

\* hooks.content_rewrite of the configuration: "do not modify anything".
content_rewrite(branch, relpath, length, blocks) == [length |-> length, blocks |-> blocks]

\* ---------------------------------------------------------- dict of lists

\* A collections.defaultdict(list) in insertion order: a sequence of [key, val].
DictKeys(d) == {d[i].key : i \in 1..Len(d)}

DictGet(d, k, default) ==
    IF k \in DictKeys(d) THEN (CHOOSE e \in {d[i] : i \in 1..Len(d)} : e.key = k).val
    ELSE default

\* Fault: the relpath is never put to file_filter.
KeepRow_unfiltered(branch, relpath) == branch # None

\* Whether split_and_filter_file_rows keeps a row, given its branch and relpath.
KeepRow(branch, relpath) ==
    ~(branch = None \/ (StrTruthy(relpath) /\ ~file_filter(branch, relpath.s)))

\* split_and_filter_file_rows(rows, hooks, full_path_hook, return_rel_paths = True):
\* pathField names the column full_path_hook reads.  The result lists the
\* branches in the order in which the loop first appends to each, and under each
\* branch its kept rows in row order.
split_and_filter_file_rows(rows, pathField) ==
    LET ext   == [i \in 1..Len(rows) |-> branch_extract(tfs_unmangle_path(rows[i][pathField]))]
        kept  == {i \in 1..Len(rows) : KeepRow(ext[i].branch, ext[i].relpath)}
        first == {i \in kept : \A j \in kept : j < i => ext[j].branch # ext[i].branch}
        tagged == [i \in 1..Len(rows) |->
                     [row |-> rows[i], relpath |-> ext[i].relpath,
                      branch |-> IF i \in kept THEN ext[i].branch ELSE None]]
        listOf(b) == LET sel == SelectSeq(tagged, LAMBDA e : e.branch = b) IN
                     [m \in 1..Len(sel) |-> [row |-> sel[m].row, relpath |-> sel[m].relpath]]
    IN  [k \in 1..Cardinality(first) |->
            LET i == CHOOSE x \in first : Cardinality({j \in first : j <= x}) = k IN
            [key |-> ext[i].branch, val |-> listOf(ext[i].branch)]]

\* ------------------------------------------------------------ scratch storage

\* msdelta_decompress_on_disk_threshold
msdelta_decompress_on_disk_threshold == 10000000

\* oversize_warning_limit
oversize_warning_limit == 10000000

\* Default block_size of TempDir.read.
read_block_size == 1000000

\* The first k bytes of a byte string, and the rest.
RECURSIVE TakeBytes(_, _)
TakeBytes(b, k) ==
    IF k = 0 \/ b = <<>> THEN <<>>
    ELSE IF Head(b).n <= k THEN <<Head(b)>> \o TakeBytes(Tail(b), k - Head(b).n)
         ELSE <<[n |-> k, v |-> Head(b).v]>>

RECURSIVE DropBytes(_, _)
DropBytes(b, k) ==
    IF k = 0 \/ b = <<>> THEN b
    ELSE IF Head(b).n <= k THEN DropBytes(Tail(b), k - Head(b).n)
         ELSE <<[n |-> Head(b).n - k, v |-> Head(b).v]>> \o Tail(b)

\* The blocks f.read(block_size) returns until it returns b''.
RECURSIVE ReadBlocks(_, _)
ReadBlocks(b, block_size) ==
    IF b = <<>> THEN <<>>
    ELSE <<TakeBytes(b, block_size)>> \o ReadBlocks(DropBytes(b, block_size), block_size)

\* TempDir.get_path: names are converted with str().
get_path(name) == ToString(name)

\* TempDir.exists, on the entries td (a function from name to bytes).
TdExists(td, name) == get_path(name) \in DOMAIN td

\* TempDir.create(name, content): io.open(path, 'wb') truncates, the blocks are written.
TdCreate(td, name, blocks) ==
    [x \in (DOMAIN td) \cup {get_path(name)} |->
        IF x = get_path(name) THEN Join(blocks) ELSE td[x]]

\* os.unlink at the end of TempDir.read(..., delete_at_end = True).
TdUnlink(td, name) == [x \in (DOMAIN td) \ {get_path(name)} |-> td[x]]

\* The directory at the scratch location: whether it exists, and its entries.
Dir(exists, entries) == [exists |-> exists, entries |-> entries]

\* Fault: an existing location is taken over as it is.
TempDir_init_takeOver(dir, hasLocation, clear_location_if_existing) ==
    [ok |-> TRUE, dir |-> Dir(TRUE, IF hasLocation THEN dir.entries ELSE <<>>)]

\* TempDir.__init__(location, clear_location_if_existing) on the directory dir
\* found at the location: [ok, dir]; ok is FALSE where it raises.  Without
\* location, tempfile.mkdtemp makes a directory that did not exist.
TempDir_init(dir, hasLocation, clear_location_if_existing) ==
    IF hasLocation /\ dir.exists /\ ~clear_location_if_existing
    THEN [ok |-> FALSE, dir |-> dir]
    ELSE [ok |-> TRUE, dir |-> Dir(TRUE, <<>>)]

\* TempDir.cleanup: shutil.rmtree(self.location), which raises where the
\* directory does not exist.
TempDir_cleanup(dir) == [ok |-> dir.exists, dir |-> Dir(FALSE, <<>>)]

\* ------------------------------------------------------------------ msdelta

\* msdelta.ApplyDeltaB / ApplyDelta, the external delta primitive: a delta is
\* the bytes to append; the library rejects an empty delta.
ApplyDeltaB(source, delta) ==
    [ok |-> delta # <<>>, data |-> Normalize(source \o delta)]

\* ------------------------------------------------------- FileContentChange

\* FileContentChange._unpack_deltas_to_tempdir over the groups of the chain query
\* (file id descending), from group i on: [ok, td, base].  In disk mode base is the
\* name of the scratch entry holding the current base, in memory mode td is
\* written only for the patched revisions and base is the bytes.
\* Fault: the base is unlinked once the delta has been applied to it.
RECURSIVE UnpackDisk_dropsBase(_, _, _, _)
UnpackDisk_dropsBase(chain, i, td, base) ==
    IF i > Len(chain) THEN [ok |-> TRUE, td |-> td]
    ELSE LET g == chain[i] IN
         IF i = 1
         THEN LET d == tfs_decompress(g.CompressionType, g.Content) IN
              IF ~d.ok THEN [ok |-> FALSE, td |-> td]
              ELSE IF d.bad THEN [ok |-> FALSE, td |-> TdCreate(td, g.FileId, <<>>)]
              ELSE UnpackDisk_dropsBase(chain, i + 1, TdCreate(td, g.FileId, d.blocks), g.FileId)
         ELSE LET td1 == TdCreate(td, "delta", g.Content)
                  r   == ApplyDeltaB(td1[get_path(base)], td1[get_path("delta")])
              IN  IF ~r.ok THEN [ok |-> FALSE, td |-> td1]
                  ELSE UnpackDisk_dropsBase(chain, i + 1,
                           TdUnlink(TdCreate(td1, g.FileId, <<r.data>>), base), g.FileId)

RECURSIVE UnpackDisk(_, _, _, _)
UnpackDisk(chain, i, td, base) ==
    IF i > Len(chain) THEN [ok |-> TRUE, td |-> td]
    ELSE LET g == chain[i] IN
         IF i = 1
         THEN LET d == tfs_decompress(g.CompressionType, g.Content) IN
              IF ~d.ok THEN [ok |-> FALSE, td |-> td]
              ELSE IF d.bad THEN [ok |-> FALSE, td |-> TdCreate(td, g.FileId, <<>>)]
              ELSE UnpackDisk(chain, i + 1, TdCreate(td, g.FileId, d.blocks), g.FileId)
         ELSE LET td1 == TdCreate(td, "delta", g.Content)
                  r   == ApplyDeltaB(td1[get_path(base)], td1[get_path("delta")])
              IN  IF ~r.ok THEN [ok |-> FALSE, td |-> td1]
                  ELSE UnpackDisk(chain, i + 1, TdCreate(td1, g.FileId, <<r.data>>), g.FileId)

RECURSIVE UnpackMemory(_, _, _, _)
UnpackMemory(chain, i, td, base) ==
    IF i > Len(chain) THEN [ok |-> TRUE, td |-> td]
    ELSE LET g == chain[i] IN
         IF i = 1
         THEN LET d == tfs_decompress(g.CompressionType, g.Content) IN
              IF ~d.ok \/ d.bad THEN [ok |-> FALSE, td |-> td]
              ELSE UnpackMemory(chain, i + 1, td, Join(d.blocks))
         ELSE LET r == ApplyDeltaB(base, Join(g.Content)) IN
              IF ~r.ok THEN [ok |-> FALSE, td |-> td]
              ELSE UnpackMemory(chain, i + 1, TdCreate(td, g.FileId, <<r.data>>), r.data)

unpack_deltas_to_tempdir(f, td) ==
    IF f.FileLength > msdelta_decompress_on_disk_threshold
    THEN UnpackDisk(f.Chain, 1, td, 0)
    ELSE UnpackMemory(f.Chain, 1, td, <<>>)

\* FileContentChange.content(): what the call itself does.  ok is FALSE where the
\* call raises (err names the exception); otherwise it returns a validating
\* iterator over the decompressed rows (kind = "blocks"; bad where iterating them
\* raises) or over TempDir.read(self.id, delete_at_end = True) (kind = "read").
ContentResult(ok, err, td, kind, bad, blocks) ==
    [ok |-> ok, err |-> err, td |-> td, kind |-> kind, bad |-> bad, blocks |-> blocks]

content(f, td) ==
    IF f.ContentType = 1
    THEN IF f.Content = <<>>
         THEN ContentResult(FALSE, "KeyError", td, "none", FALSE, <<>>)
         ELSE LET d == tfs_decompress(f.CompressionType, f.Content) IN
              IF d.ok THEN ContentResult(TRUE, "", td, "blocks", d.bad, d.blocks)
              ELSE ContentResult(FALSE, "unexpected compression type", td, "none", FALSE, <<>>)
    ELSE IF f.ContentType = 2
    THEN IF TdExists(td, f.FileId)
         THEN ContentResult(TRUE, "", td, "read", FALSE, <<>>)
         ELSE LET u == unpack_deltas_to_tempdir(f, td) IN
              IF u.ok THEN ContentResult(TRUE, "", u.td, "read", FALSE, <<>>)
              ELSE ContentResult(FALSE, "delta", u.td, "none", FALSE, <<>>)
    ELSE ContentResult(FALSE, "unexpected content type", td, "none", FALSE, <<>>)

\* ------------------------------------------------------------- the database
\* The source database is an input.  tbl_ChangeSet is fixed when the run starts;
\* the result of every other query is drawn when the query is executed.  The
\* rows come from the union of five bounded families of databases:
\*   "files"  : changesets whose file rows vary in branch, filter, deletion and content
\*   "merges" : plain file rows with merge-history rows
\*   "labels" : plain file rows with labels
\*   "wide"   : one changeset touching more branches than a mark stride holds
\*   "rows"   : file rows whose relative path is missing, empty or starts with a
\*              backslash, a row without file id, and rows whose FileLength is
\*              not the length of the content
\* The family "tempdir" has no database: the scratch directory is used on its own.

Families == {"files", "merges", "labels", "wide", "rows", "tempdir"}

Run(n, v) == <<[n |-> n, v |-> v]>>

\* Paths as stored in tbl_Version.FullPath.
pMa   == <<"$", "\\", "M", "\\", "a">>
pMsub == <<"$", "\\", "M", "\\", "d", "\\", "b", ">">>
pMbak == <<"$", "\\", "M", "\\", "a", ".bak">>
pMdir == <<"$", "\\", "M", "\\">>
pDa   == <<"$", "\\", "D", "\\", "a">>
pDbak == <<"$", "\\", "D", "\\", "a", ".bak">>
pXa   == <<"$", "\\", "X", "\\", "a">>
pMempty == <<"$", "\\", "M", "\\", "\\">>
pMslash == <<"$", "\\", "M", "\\", "\\", "a">>

\* A row of tbl_Version joined to tbl_File, with the tbl_Content rows of the file
\* (Content) and the groups its delta-chain query returns (Chain).
FileRow(path, fileId, deletionId, contentType, compressionType, fileLength, hash, blocks, chain) ==
    [FullPath |-> path, FileId |-> fileId, DeletionId |-> deletionId,
     ContentType |-> contentType, CompressionType |-> compressionType,
     FileLength |-> fileLength, HashValue |-> hash, Content |-> blocks, Chain |-> chain]

ChainGroup(fileId, compressionType, blocks) ==
    [FileId |-> fileId, CompressionType |-> compressionType, Content |-> blocks]

\* Full-text revisions.
fFull(path, fileId)  == FileRow(path, fileId, 0, 1, 0, 3, md5(Run(2, 1) \o Run(1, 0)),
                                <<Run(2, 1), Run(1, 0)>>, <<>>)
fGzip(path, fileId)  == FileRow(path, fileId, 0, 1, 1, 2, md5(Run(2, 1)),
                                <<Run(1, GzipMagic) \o Run(1, 1), Run(1, 1)>>, <<>>)
fBadMd5(path, fileId) == FileRow(path, fileId, 0, 1, 0, 2, (md5(Run(2, 1)) + 1) % 13,
                                <<Run(2, 1)>>, <<>>)
fDelete(path, fileId) == FileRow(path, fileId, 7, 1, 0, 0, 0, <<>>, <<>>)

\* A row whose FileId is 0: neither Changeset.deletes nor Changeset.changes yields it.
fNoFile(path) == FileRow(path, 0, 0, 0, 0, 0, 0, <<>>, <<>>)

\* Full-text revisions whose FileLength is not the length of the content.
fLength(path, fileId, fileLength) ==
    FileRow(path, fileId, 0, 1, 0, fileLength, md5(Run(2, 1) \o Run(1, 0)),
            <<Run(2, 1), Run(1, 0)>>, <<>>)

\* Delta revisions: the chain is the newer full text followed by backward deltas.
fDelta(path, fileId) ==
    FileRow(path, fileId, 0, 2, 0, 3, md5(Run(2, 1) \o Run(1, 0)), <<Run(1, 0)>>,
            <<ChainGroup(fileId + 1, 0, <<Run(2, 1)>>), ChainGroup(fileId, 0, <<Run(1, 0)>>)>>)
fDeltaBadMd5(path, fileId) ==
    FileRow(path, fileId, 0, 2, 0, 3, (md5(Run(2, 1) \o Run(1, 0)) + 1) % 13, <<Run(1, 0)>>,
            <<ChainGroup(fileId + 1, 0, <<Run(2, 1)>>), ChainGroup(fileId, 0, <<Run(1, 0)>>)>>)
fDeltaDisk(path, fileId) ==
    FileRow(path, fileId, 0, 2, 0, msdelta_decompress_on_disk_threshold + 1,
            md5(Run(msdelta_decompress_on_disk_threshold, 1) \o Run(1, 0)), <<Run(1, 0)>>,
            <<ChainGroup(fileId + 1, 0, <<Run(msdelta_decompress_on_disk_threshold, 1)>>),
              ChainGroup(fileId, 0, <<Run(1, 0)>>)>>)

\* File ids are unique per revision: changeset id * 10 + position.
Fid(id, k) == id * 10 + k

\* Results of the file-row query of Changeset.filerowsRelpathsByBranch for changeset id.
FileRowsOf(fam, id) ==
    IF fam = "files" THEN
        { <<fFull(pMa, Fid(id, 1))>>,
          <<fBadMd5(pMa, Fid(id, 1))>>,
          <<fGzip(pMsub, Fid(id, 1)), fDelete(pMa, Fid(id, 2))>>,
          <<fFull(pDa, Fid(id, 1)), fFull(pMbak, Fid(id, 2)), fDelete(pMa, Fid(id, 3)),
            fFull(pXa, Fid(id, 4))>>,
          <<fFull(pXa, Fid(id, 1)), fFull(pMbak, Fid(id, 2))>>,
          <<fDelta(pMa, Fid(id, 1)), fDelete(pDa, Fid(id, 3))>>,
          <<fDeltaBadMd5(pDa, Fid(id, 1))>>,
          <<fDeltaDisk(pMa, Fid(id, 1))>> }
    ELSE IF fam = "wide" THEN
        IF id = 1
        THEN { [i \in 1..WideFanout |->
                  fDelete(<<"$", "\\", WideBranch(i), "\\", "a">>, Fid(MaxCs + i, 0))] }
        ELSE { <<fFull(pMa, Fid(id, 1))>> }
    ELSE IF fam = "rows" THEN
        { <<fFull(pMa, Fid(id, 1))>>,
          <<fNoFile(pMdir), fDelete(pMa, Fid(id, 1))>>,
          <<fDelete(pMdir, Fid(id, 1))>>,
          <<fFull(pMempty, Fid(id, 1))>>,
          <<fFull(pMa, Fid(id, 1)), fDelete(pMslash, Fid(id, 2))>>,
          <<fLength(pMa, Fid(id, 1), 2)>>,
          <<fLength(pMa, Fid(id, 1), 4)>> }
    ELSE { <<fFull(pMa, Fid(id, 1))>>,
           <<fDelete(pDa, Fid(id, 1)), fFull(pMa, Fid(id, 2)), fDelete(pMsub, Fid(id, 3))>> }

\* A row of the merge query of Changeset.mergeRowsByTargetBranch.
MergeRow(target, source, sourceVersionTo) ==
    [TargetFullPath |-> target, SourceFullPath |-> source, SourceVersionTo |-> sourceVersionTo]

\* Results of the merge query for changeset id (empty where MayHaveMerges is 0).
MergeRowsOf(fam, id) ==
    IF fam = "merges" THEN
        { <<>>,
          <<MergeRow(pMa, pDa, 1)>>,
          <<MergeRow(pMa, pDa, MaxCs)>>,
          <<MergeRow(pMa, pDa, 1), MergeRow(pMa, pDa, 2), MergeRow(pMa, pMsub, MaxCs)>>,
          <<MergeRow(pDa, pMa, 1), MergeRow(pMa, pXa, 1)>>,
          <<MergeRow(pMa, pDa, 1), MergeRow(pMa, pDbak, 2)>>,
          <<MergeRow(pMa, pDbak, 1)>> }
    ELSE { <<>> }

\* tbl_label: LabelId -> LabelName.
labelRows == [l \in {1, 2, 3} |-> IF l = 2 THEN <<"r", "c">> ELSE <<"v", "1">>]

\* A row of tbl_LabelEntry joined to tbl_Version.
EntryRow(labelId, versionFrom, path) ==
    [LabelId |-> labelId, VersionFrom |-> versionFrom, FullPath |-> path]

\* Results of the label-entry query of Repository10.labels (ordered by LabelId).
EntryRowsOf(fam) ==
    IF fam = "labels" THEN
        { <<>> }
        \cup { <<EntryRow(1, v, pMa)>> : v \in 1..MaxCs }
        \cup { <<EntryRow(1, v, pMa), EntryRow(1, w, pMsub)>> : v, w \in 1..MaxCs }
        \cup { <<EntryRow(1, v, pMa), EntryRow(1, w, pDa)>> : v, w \in 1..2 }
        \cup { <<EntryRow(1, 1, pXa), EntryRow(1, v, pDa), EntryRow(2, 1, pMa),
                 EntryRow(2, v, pMbak)>> : v \in 1..2 }
        \cup { <<EntryRow(1, 1, pMa), EntryRow(1, 2, pMa), EntryRow(1, 1, pDa),
                 EntryRow(1, 2, pDa), EntryRow(2, 1, pDa)>>,
               <<EntryRow(1, 1, pMa), EntryRow(1, 2, pDa), EntryRow(2, MaxCs, pMa)>>,
               <<EntryRow(1, 1, pMa), EntryRow(3, 1, pDa)>> }
    ELSE { <<>> }

\* -------------------------------------------------------------------- state

VARIABLES
    family,                       \* the family the database is drawn from
    tbl_ChangeSet,                \* ChangeSetId of the rows of tbl_ChangeSet that are not destroyed
    has_tbl_identity,             \* whether sys.tables lists tbl_Identity
    stop_after, skip_tags, no_content,   \* arguments of fastexport_commands
    pc,                           \* position of the run
    error,                        \* the exception that ended the run ("" while none)
    repo,                         \* what create_repo returned
    csIter,                       \* Repository10.changesets(): [i, pending]
    cs,                           \* the Changeset the driver loop holds
    rowIdx,                       \* index in cs.rowsRelPaths of the row last visited
    labelIter,                    \* Repository10.labels(): the rows read, the items still to come
    marks, marks_last_changesetId, marks_last_issued, marks_last_issued_per_branch,
    tempdir,                      \* entries of the scratch directory: name -> bytes
    location_exists,              \* whether the scratch directory exists
    scope,                        \* the "with create_repo(...) as repo" block: none, entered, left
    tdtest,                       \* a TempDir object used on its own, and its reader
    user_cache,                   \* lru_cache of get_user_displayname_email_timezone and the calls of the hook
    fn_arg, fn_call,              \* a path function called on its own: the argument, the calls made
    item, walk,                   \* FileContentChange on its own: the revisions of one item, the request in progress
    it,                           \* a PeekableIterator or MD5ValidatingIterator used on its own
    out,                          \* the commands serialized to the stream
    warnings,                     \* the calls of hooks.warning
    fetched,                      \* history: the file rows read per source changeset
    yielded,                      \* history: the Changeset objects changesets() yielded
    labelsYielded,                \* history: the Label objects labels() yielded
    allocLog                      \* history: the calls of generate_mark

vars == <<family, tbl_ChangeSet, has_tbl_identity, stop_after, skip_tags, no_content,
          pc, error, repo, csIter, cs, rowIdx, labelIter,
          marks, marks_last_changesetId, marks_last_issued, marks_last_issued_per_branch,
          tempdir, location_exists, scope, tdtest, user_cache, fn_arg, fn_call,
          item, walk, it,
          out, warnings, fetched, yielded, labelsYielded, allocLog>>

inputVars == <<family, tbl_ChangeSet, has_tbl_identity, stop_after, skip_tags, no_content>>

markVars == <<marks, marks_last_changesetId, marks_last_issued, marks_last_issued_per_branch,
              allocLog>>

histVars == <<fetched, yielded, labelsYielded>>

scratchVars == <<location_exists, scope, tdtest>>

fnVars == <<fn_arg, fn_call, item, walk, it>>

\* ------------------------------------------------------------ mark allocation

\* The closure state of generate_mark as one record.
MarkState == [marks |-> marks, last_cs |-> marks_last_changesetId,
              last_issued |-> marks_last_issued, per_branch |-> marks_last_issued_per_branch]

\* dict[key] = value
DictSet(d, k, v) == [x \in (DOMAIN d) \cup {k} |-> IF x = k THEN v ELSE d[x]]

\* Fault: the else branch does not increment.
NextMark_noIncrement(m, changesetId) ==
    IF changesetId # m.last_cs THEN changesetId * MarkStride ELSE m.last_issued

\* The mark generate_mark(branch, changesetId) issues from state m.
NextMark(m, changesetId) ==
    IF changesetId # m.last_cs THEN changesetId * MarkStride ELSE m.last_issued + 1

\* generate_mark: the state after the call, with the returned mark in field mark.
generate_mark(m, branch, changesetId) ==
    LET mark == NextMark(m, changesetId) IN
    [marks       |-> DictSet(m.marks, <<changesetId, branch>>, mark),
     last_cs     |-> changesetId,
     last_issued |-> mark,
     per_branch  |-> DictSet(m.per_branch, branch, mark),
     mark        |-> mark]

SetMarkState(m, branch, changesetId) ==
    /\ marks' = m.marks
    /\ marks_last_changesetId' = m.last_cs
    /\ marks_last_issued' = m.last_issued
    /\ marks_last_issued_per_branch' = m.per_branch
    /\ allocLog' = Append(allocLog, [branch |-> branch, cs |-> changesetId, mark |-> m.mark])

\* ------------------------------------------------------------------ queries

\* select(conn, query): a generator object over the rows of the result.
select(rows) == [type |-> "generator", rows |-> rows]

\* bool(x) of Python: a generator object has neither __bool__ nor __len__, so it
\* is true whatever it would yield; a list is true when it is not empty.
bool(x) == IF x.type = "generator" THEN TRUE ELSE x.rows # <<>>

\* The rows of "select * from sys.tables where name='tbl_Identity'".
sys_tables_rows == IF has_tbl_identity THEN <<"tbl_Identity">> ELSE <<>>

\* create_repo: TRUE where it returns a Repository10, FALSE where it raises
\* NotImplementedError.
create_repo_accepts == bool(select(sys_tables_rows))

\* Repository10.get_user: the query joins tbl_Identity; TRUE where it returns a User.
get_user_ok == has_tbl_identity

\* Ascending sequence of a finite set of integers (order by cs.ChangeSetId).
RECURSIVE SortAsc(_)
SortAsc(S) ==
    IF S = {} THEN <<>>
    ELSE LET m == CHOOSE x \in S : \A y \in S : x <= y IN <<m>> \o SortAsc(S \ {m})

\* Fault: the query orders by cs.ChangeSetId desc.
csrows_descending ==
    LET asc == SortAsc(tbl_ChangeSet) IN [i \in 1..Len(asc) |-> asc[Len(asc) + 1 - i]]

\* The csrows cursor of Repository10.changesets.
csrows == SortAsc(tbl_ChangeSet)

\* The rows of a list of RowRelPath.
RowsOf(list) == [i \in 1..Len(list) |-> list[i].row]

\* A Changeset object.
Changeset(id, branch, filerowsRelPaths, mergerows) ==
    [id |-> id, branch |-> branch, rowsRelPaths |-> filerowsRelPaths, mergerows |-> mergerows]

NoChangeset == Changeset(0, None, <<>>, <<>>)

\* The Changeset objects Repository10.changesets yields for one csrow.
ChangesetsOfRow(id, filerows, mergequery) ==
    LET filerowRelpathsByBranch == split_and_filter_file_rows(filerows, "FullPath")
        mergerowsByTargetBranch == split_and_filter_file_rows(mergequery, "TargetFullPath")
    IN  [k \in 1..Len(filerowRelpathsByBranch) |->
            Changeset(id, filerowRelpathsByBranch[k].key, filerowRelpathsByBranch[k].val,
                      RowsOf(DictGet(mergerowsByTargetBranch, filerowRelpathsByBranch[k].key, <<>>)))]

\* max of a non-empty set of integers
Max(S) == CHOOSE x \in S : \A y \in S : y <= x

\* Fault: the rows are not put to file_filter, every row whose source branch is
\* recognised counts.
merges_unfiltered(c) ==
    LET ext(i) == branch_extract(tfs_unmangle_path(c.mergerows[i].SourceFullPath))
        idx == {i \in 1..Len(c.mergerows) : ext(i).branch # None}
        first == {i \in idx : \A j \in idx : j < i => ext(j).branch # ext(i).branch}
    IN  [k \in 1..Cardinality(first) |->
            LET i == CHOOSE x \in first : Cardinality({j \in first : j <= x}) = k
                sourceVersions ==
                    {c.mergerows[j].SourceVersionTo : j \in {x \in idx :
                        /\ ext(x).branch = ext(i).branch
                        /\ c.mergerows[x].SourceVersionTo < c.id}}
            IN  [branch  |-> ext(i).branch,
                 version |-> IF sourceVersions # {} THEN Max(sourceVersions) ELSE NoneInt]]

\* Changeset.merges: the (branch, version) pairs in the order yielded.
merges(c) ==
    LET mergerowsBySourceBranch == split_and_filter_file_rows(c.mergerows, "SourceFullPath")
    IN  [k \in 1..Len(mergerowsBySourceBranch) |->
            LET rows == mergerowsBySourceBranch[k].val
                sourceVersions ==
                    {v \in {rows[i].row.SourceVersionTo : i \in 1..Len(rows)} : v < c.id}
            IN  [branch  |-> mergerowsBySourceBranch[k].key,
                 version |-> IF sourceVersions # {} THEN Max(sourceVersions) ELSE NoneInt]]

\* ------------------------------------------------------------------- labels

\* itertools.groupby over LabelId: the runs of consecutive rows with one LabelId,
\* each as [LabelId, versionsFrom].
RECURSIVE GroupByLabelId(_)
GroupByLabelId(rows) ==
    IF rows = <<>> THEN <<>>
    ELSE LET rest == GroupByLabelId(Tail(rows))
             r    == Head(rows)
         IN  IF rest # <<>> /\ Len(rows) > 1 /\ rows[2].LabelId = r.LabelId
             THEN <<[LabelId |-> r.LabelId,
                     versionsFrom |-> Head(rest).versionsFrom \cup {r.VersionFrom}]>>
                  \o Tail(rest)
             ELSE <<[LabelId |-> r.LabelId, versionsFrom |-> {r.VersionFrom}]>> \o rest

\* branchesByLabelId[labelId]
BranchesOfLabel(byBranch, labelId) ==
    {byBranch[k].key : k \in {j \in 1..Len(byBranch) :
        \E i \in 1..Len(byBranch[j].val) : byBranch[j].val[i].row.LabelId = labelId}}

\* Fault: the test len(versionsFrom) > 1 is missing; some version is popped.
LabelItem_anyVersion(byBranch, branch, g) ==
    [kind |-> "label", labelId |-> g.LabelId, branch |-> branch,
     changesetId |-> CHOOSE v \in g.versionsFrom : TRUE,
     name |-> labelRows[g.LabelId]]

\* What Repository10.labels does for one (branch, labelId) group: a warning, or a
\* Label it yields.
LabelItem(byBranch, branch, g) ==
    IF Cardinality(g.versionsFrom) > 1
    THEN [kind |-> "warning", labelId |-> g.LabelId, branch |-> branch,
          changesetId |-> NoneInt, name |-> labelRows[g.LabelId]]
    ELSE [kind |-> "label", labelId |-> g.LabelId, branch |-> branch,
          changesetId |-> CHOOSE v \in g.versionsFrom : TRUE,
          name |-> IF Cardinality(BranchesOfLabel(byBranch, g.LabelId)) > 1
                   THEN labelRows[g.LabelId] \o <<" ", "[", branch, "]">>
                   ELSE labelRows[g.LabelId]]

RECURSIVE LabelItemsFrom(_, _)
LabelItemsFrom(byBranch, k) ==
    IF k > Len(byBranch) THEN <<>>
    ELSE LET groups == GroupByLabelId(RowsOf(byBranch[k].val)) IN
         [i \in 1..Len(groups) |-> LabelItem(byBranch, byBranch[k].key, groups[i])]
         \o LabelItemsFrom(byBranch, k + 1)

\* Repository10.labels: the warnings and Labels of the generator, in order.
labels(entryRows) ==
    LabelItemsFrom(split_and_filter_file_rows(entryRows, "FullPath"), 1)

\* Index of the first Label among the items (0 when only warnings are left).
FirstLabel(items) ==
    IF \E i \in 1..Len(items) : items[i].kind = "label"
    THEN CHOOSE i \in 1..Len(items) :
            items[i].kind = "label" /\ \A j \in 1..(i - 1) : items[j].kind # "label"
    ELSE 0

\* The warnings the generator raises before it yields item n (or ends, n = Len + 1).
WarningsBefore(items, n) ==
    [i \in 1..(n - 1) |-> [kind |-> "ignoring label", labelId |-> items[i].labelId,
                           branch |-> items[i].branch, changesetId |-> NoneInt]]

\* str.replace(x, ""): the symbols other than x.
Remove(s, x) == SelectSeq(s, LAMBDA c : c # x)

\* git_mangle_tagname
git_mangle_tagname(name) ==
    Replace(Replace(Replace(Remove(Remove(git_mangle_path(name), "\n"), "\r"),
                            "[", "("), "]", ")"), " ", "_")

\* ----------------------------------------------------------------- commands

\* A serialized command; every kind uses the fields it needs.
\*   progress : cs, branch            commit : cs, branch, mark, merges
\*   D        : path                  M      : path, size, blocks, complete, fileId, hash
\*   tag      : name, mark, labelId, branch, cs
\* A commit also carries author and committer, a tag its tagger: the tuples
\* who_when returned (NoWho for the author that is None).
NoWho == [user |-> 0, serial |-> 0]

NoCmd == [type |-> "", cs |-> 0, branch |-> None, mark |-> 0, merges |-> <<>>,
          path |-> <<>>, size |-> 0, blocks |-> <<>>, complete |-> TRUE,
          fileId |-> 0, hash |-> 0, contentType |-> 0, name |-> <<>>, labelId |-> 0,
          author |-> NoWho, committer |-> NoWho, tagger |-> NoWho]

ProgressCommand(c) == [NoCmd EXCEPT !.type = "progress", !.cs = c.id, !.branch = c.branch]

CommitCommand(c, mark, author, committer, merge_marks) ==
    [NoCmd EXCEPT !.type = "commit", !.cs = c.id, !.branch = c.branch,
                  !.mark = mark, !.author = author, !.committer = committer,
                  !.merges = merge_marks]

FileDeleteCommand(path) == [NoCmd EXCEPT !.type = "D", !.path = path]

FileModifyCommand(path, f, size, blocks, complete) ==
    [NoCmd EXCEPT !.type = "M", !.path = path, !.size = size, !.blocks = blocks,
                  !.complete = complete, !.fileId = f.FileId, !.hash = f.HashValue,
                  !.contentType = f.ContentType]

TagCommand(lbl, mark, tagger) ==
    [NoCmd EXCEPT !.type = "tag", !.name = git_mangle_tagname(lbl.name), !.mark = mark,
                  !.tagger = tagger,
                  !.labelId = lbl.labelId, !.branch = lbl.branch, !.cs = lbl.changesetId]

\* ------------------------------------------------------------------- users
\* tbl_ChangeSet.OwnerId and CommitterId of changeset id, tbl_Label.OwnerId of
\* label l; Repository10.get_user returns one User object per id, which the
\* model identifies with the id.
OwnerId(id) == 1 + (id % 2)

CommitterId(id) == IF id < 3 THEN 1 ELSE 2

LabelOwnerId(l) == 1 + (l % 2)

\* hooks.user_lookup(user), called as the n-th call of the run: the answer
\* carries n, so that two calls for one user give answers that differ.
user_lookup(user, n) == [user |-> user, serial |-> n]

\* Fault: no cache, the hook is called each time.
get_user_displayname_email_timezone_uncached(c, user) ==
    LET r == user_lookup(user, Len(c.calls) + 1) IN
    [c |-> [cache |-> c.cache, calls |-> Append(c.calls, user)], result |-> r]

\* Repository10.get_user_displayname_email_timezone(user) under
\* functools.lru_cache(maxsize = None), on the cache state c: [c, result].
get_user_displayname_email_timezone(c, user) ==
    IF user \in DOMAIN c.cache
    THEN [c |-> c, result |-> c.cache[user]]
    ELSE LET r == user_lookup(user, Len(c.calls) + 1) IN
         [c |-> [cache |-> [u \in (DOMAIN c.cache) \cup {user} |->
                              IF u = user THEN r ELSE c.cache[u]],
                 calls |-> Append(c.calls, user)],
          result |-> r]

\* who_when(user, date) of fastexport_commands: the tuple it formats is the
\* answer of the lookup.
who_when(c, user) == get_user_displayname_email_timezone(c, user)

Warning(kind, labelId, branch, changesetId) ==
    [kind |-> kind, labelId |-> labelId, branch |-> branch, changesetId |-> changesetId]

\* Truth value of an optional int: None and 0 are falsy.
IntTruthy(v) == v # NoneInt /\ v # 0

\* Fault: the digest is not compared at StopIteration.
MD5ValidatingIterator_unchecked(checksum, blocks) == TRUE

\* MD5ValidatingIterator at the end of the wrapped blocks: TRUE where the
\* iteration ends with StopIteration, FALSE where it raises "checksum mismatch".
MD5ValidatingIterator(checksum, blocks) == md5(Join(blocks)) = checksum

RECURSIVE SumLen(_)
SumLen(blocks) == IF blocks = <<>> THEN 0 ELSE BytesLen(Head(blocks)) + SumLen(Tail(blocks))

\* Fault: only a blob longer than declared is refused.
LengthMatches_notLonger(size, blocks) == size - SumLen(blocks) >= 0

\* serialize_data for a BlobFragmentIterator: TRUE where the declared size equals
\* the bytes written.
LengthMatches(size, blocks) == size - SumLen(blocks) = 0

\* ------------------------------------------------------------------ actions

Fail(e) == pc' = "failed" /\ error' = e

\* The position after the changeset loop.
AfterChangesets == IF skip_tags THEN "done" ELSE "labels"

InputsOf(fam) ==
    IF fam = "files"
    THEN [ids : SUBSET (1..MaxCs), stop : {0}, skip : {TRUE}, nocontent : BOOLEAN,
          identity : BOOLEAN]
    ELSE IF fam = "merges"
    THEN [ids : SUBSET (1..MaxCs), stop : {0}, skip : {TRUE}, nocontent : {FALSE},
          identity : {TRUE}]
    ELSE IF fam = "labels"
    THEN [ids : SUBSET (1..MaxCs), stop : 0..MaxCs, skip : BOOLEAN, nocontent : {FALSE},
          identity : BOOLEAN]
    ELSE IF fam = "wide"
    THEN [ids : {{1, 2}}, stop : {0}, skip : {TRUE}, nocontent : {FALSE}, identity : {TRUE}]
    ELSE IF fam = "rows"
    THEN [ids : SUBSET (1..MaxCs), stop : {0}, skip : {TRUE}, nocontent : BOOLEAN,
          identity : {TRUE}]
    ELSE [ids : {{}}, stop : {0}, skip : {TRUE}, nocontent : {FALSE}, identity : {TRUE}]

\* No content() request is in progress and none has been made: phase (idle,
\* unpack, read, failed), the revision requested as its file id rev and its
\* position p in the chain, its FileLength, the groups walked n, the scratch
\* entries td0 the walk started from, and the log of the requests that ended.
NoWalk == [phase |-> "idle", rev |-> 0, p |-> 0, FileLength |-> 0, n |-> 0, walked |-> FALSE,
           td0 |-> <<>>, log |-> <<>>]

\* The result of a call on an iterator: the call (peek, next), how it ended
\* (value, StopIteration, checksum mismatch) and the value returned.
CallResult(op, result, value) == [op |-> op, result |-> result, value |-> value]

\* An iterator object: the wrapped sequence src and how many of its elements
\* the wrapped iterator has handed out (pos); _peeked of a PeekableIterator;
\* expected_checksum and the bytes fed to running_checksum of an
\* MD5ValidatingIterator; and, as history, the values next returned and the
\* last call.
Iterator(kind, src, checksum) ==
    [kind |-> kind, src |-> src, pos |-> 0, peeked |-> <<>>, checksum |-> checksum,
     running |-> <<>>, returned |-> <<>>, last |-> CallResult("", "", 0)]

NoIterator == Iterator("", <<>>, 0)

\* No path function has been called.
NoCall == [fn |-> "", quote_spaces |-> FALSE, results |-> <<>>]

\* The cache of get_user_displayname_email_timezone is empty and the hook
\* user_lookup has not been called: [cache, calls].
NoLookups == [cache |-> <<>>, calls |-> <<>>]

\* No generator of TempDir.read is open.
NoReader == [active |-> FALSE, name |-> 0, delete_at_end |-> FALSE, block_size |-> 0,
             opened |-> FALSE, rest |-> <<>>]

\* No TempDir object has been constructed.  Fields: obj (none, live, left), the
\* last call and whether it returned; hasLocation, clear and pre, the arguments
\* of the last constructor and the directory it found; raises, the constructors
\* that raised; ops, the calls made; and the history of the entries: created
\* (and not removed since), removed and kept (read to the end with and without
\* delete_at_end).
NoTempDir == [obj |-> "none", last |-> "", ok |-> TRUE, hasLocation |-> FALSE,
              clear |-> FALSE, pre |-> Dir(FALSE, <<>>), raises |-> 0, ops |-> 0,
              created |-> {}, removed |-> {}, kept |-> {}, reader |-> NoReader]

\* Names of scratch entries, and what the directory at the location may hold
\* before a TempDir is constructed.
TdNames == {1, 2}

InitialDirs == {Dir(FALSE, <<>>), Dir(TRUE, <<>>), Dir(TRUE, TdCreate(<<>>, 1, <<Run(1, 1)>>))}

Init ==
    /\ family \in Families
    /\ \E inp \in InputsOf(family) :
          /\ tbl_ChangeSet = inp.ids
          /\ stop_after = inp.stop
          /\ skip_tags = inp.skip
          /\ no_content = inp.nocontent
          /\ has_tbl_identity = inp.identity
    /\ pc = IF family = "tempdir" THEN "tempdir" ELSE "create_repo"
    /\ error = ""
    /\ repo = "none"
    /\ csIter = [i |-> 0, pending |-> <<>>]
    /\ cs = NoChangeset
    /\ rowIdx = 0
    /\ labelIter = [started |-> FALSE, entryRows |-> <<>>, items |-> <<>>]
    /\ marks = <<>>
    /\ marks_last_changesetId = NoneInt
    /\ marks_last_issued = NoneInt
    /\ marks_last_issued_per_branch = <<>>
    /\ \E d \in (IF family = "tempdir" THEN InitialDirs ELSE {Dir(FALSE, <<>>)}) :
          location_exists = d.exists /\ tempdir = d.entries
    /\ scope = "none"
    /\ tdtest = NoTempDir
    /\ user_cache = NoLookups
    /\ fn_arg = <<>>
    /\ fn_call = NoCall
    /\ item = <<>>
    /\ walk = NoWalk
    /\ it = NoIterator
    /\ out = <<>>
    /\ warnings = <<>>
    /\ fetched = <<>>
    /\ yielded = <<>>
    /\ labelsYielded = <<>>
    /\ allocLog = <<>>

\* main: create_repo(config.conninfo, hooks, temp_dir)
\* and Repository10.__init__, which makes the scratch directory with
\* clear_location_if_existing = True; the "with" block is entered.
CreateRepo ==
    /\ pc = "create_repo"
    /\ IF create_repo_accepts
       THEN LET r == TempDir_init(Dir(location_exists, tempdir), TRUE, TRUE) IN
            /\ repo' = "Repository10"
            /\ pc' = "changesets"
            /\ error' = error
            /\ location_exists' = r.dir.exists
            /\ tempdir' = r.dir.entries
            /\ scope' = "entered"
       ELSE /\ repo' = repo
            /\ Fail("NotImplementedError")
            /\ UNCHANGED <<location_exists, tempdir, scope>>
    /\ UNCHANGED <<inputVars, fnVars, user_cache, tdtest, csIter, cs, rowIdx, labelIter, markVars, out,
                   warnings, histVars>>

\* Repository10.changesets: the next csrow and its file and merge rows are read.
FetchChangeset ==
    /\ pc = "changesets"
    /\ csIter.pending = <<>>
    /\ csIter.i < Len(csrows)
    /\ LET id == csrows[csIter.i + 1] IN
       \E filerows \in FileRowsOf(family, id), mergequery \in MergeRowsOf(family, id) :
          /\ csIter' = [i |-> csIter.i + 1,
                        pending |-> ChangesetsOfRow(id, filerows, mergequery)]
          /\ fetched' = Append(fetched, [id |-> id, rows |-> filerows])
    /\ UNCHANGED <<inputVars, fnVars, user_cache, scratchVars, pc, error, repo, cs, rowIdx, labelIter, markVars, tempdir,
                   out, warnings, yielded, labelsYielded>>

\* Fault: the loop breaks at stop_after itself.
StopReached_atStop(c) == stop_after # 0 /\ c.id >= stop_after

\* "if stop_after and cs.id > stop_after: break"
StopReached(c) == stop_after # 0 /\ c.id > stop_after

\* for cs in repo.changesets(): the next Changeset is yielded; the loop breaks
\* past stop_after, otherwise the progress command is written.
NextChangeset ==
    /\ pc = "changesets"
    /\ csIter.pending # <<>>
    /\ IF ~get_user_ok
       THEN /\ Fail("database error")
            /\ UNCHANGED <<csIter, cs, out, yielded>>
       ELSE LET c == Head(csIter.pending) IN
            /\ csIter' = [csIter EXCEPT !.pending = Tail(csIter.pending)]
            /\ yielded' = Append(yielded, c)
            /\ error' = error
            /\ IF StopReached(c)
               THEN /\ pc' = AfterChangesets
                    /\ UNCHANGED <<cs, out>>
               ELSE /\ pc' = "commit"
                    /\ cs' = c
                    /\ out' = Append(out, ProgressCommand(c))
    /\ UNCHANGED <<inputVars, fnVars, user_cache, scratchVars, repo, rowIdx, labelIter, markVars, tempdir, warnings,
                   fetched, labelsYielded>>

\* repo.changesets() is exhausted.
ChangesetsExhausted ==
    /\ pc = "changesets"
    /\ csIter.pending = <<>>
    /\ csIter.i = Len(csrows)
    /\ pc' = AfterChangesets
    /\ UNCHANGED <<inputVars, fnVars, user_cache, scratchVars, error, repo, csIter, cs, rowIdx, labelIter, markVars,
                   tempdir, out, warnings, histVars>>

\* Whether the driver finds the mark of a merge parent.
MergeKnown(m) ==
    IF IntTruthy(m.version) THEN <<m.version, m.branch>> \in DOMAIN marks
    ELSE m.branch \in DOMAIN marks_last_issued_per_branch

\* Fault: the merge parents are looked up after generate_mark has run for the
\* commit itself.
MergeMark_afterAllocation(m) ==
    LET g == generate_mark(MarkState, cs.branch, cs.id) IN
    IF IntTruthy(m.version) THEN g.marks[<<m.version, m.branch>>]
    ELSE g.per_branch[m.branch]

\* merge_marks.append(...) for one (branch, version).
MergeMark(m) ==
    IF IntTruthy(m.version) THEN marks[<<m.version, m.branch>>]
    ELSE marks_last_issued_per_branch[m.branch]

\* The merge parents are resolved, the mark is allocated, the commit is written.
EmitCommit ==
    /\ pc = "commit"
    /\ LET ms == merges(cs) IN
       IF \E k \in 1..Len(ms) : ~MergeKnown(ms[k])
       THEN /\ Fail("KeyError")
            /\ UNCHANGED <<markVars, out, rowIdx, user_cache>>
       ELSE LET g == generate_mark(MarkState, cs.branch, cs.id)
                owner == OwnerId(cs.id)
                committer == CommitterId(cs.id)
                a == IF owner # committer THEN who_when(user_cache, owner)
                     ELSE [c |-> user_cache, result |-> NoWho]
                w == who_when(a.c, committer)
            IN
            /\ SetMarkState(g, cs.branch, cs.id)
            /\ user_cache' = w.c
            /\ out' = Append(out, CommitCommand(cs, g.mark, a.result, w.result,
                                                [k \in 1..Len(ms) |-> MergeMark(ms[k])]))
            /\ rowIdx' = 0
            /\ pc' = "deletes"
            /\ error' = error
    /\ UNCHANGED <<inputVars, fnVars, scratchVars, repo, csIter, cs, labelIter, tempdir, warnings, histVars>>

\* Changeset.deletes / Changeset.changes: index of the next row the generator
\* yields after row i (0 when it is exhausted).
NextRow(rows, i, deletes) ==
    LET S == {j \in (i + 1)..Len(rows) :
                 /\ rows[j].row.FileId # 0
                 /\ (rows[j].row.DeletionId # 0) = deletes}
    IN  IF S = {} THEN 0 ELSE CHOOSE j \in S : \A k \in S : j <= k

\* Fault: one loop over the rows in row order, deletes and changes interleaved.
NextFileOp_rowOrder(rows, phase, i) ==
    LET S == {j \in (i + 1)..Len(rows) : rows[j].row.FileId # 0} IN
    IF S = {} THEN [kind |-> "none", idx |-> 0]
    ELSE LET j == CHOOSE x \in S : \A y \in S : x <= y IN
         [kind |-> IF rows[j].row.DeletionId # 0 THEN "D" ELSE "M", idx |-> j]

\* The loops "for f in cs.deletes()" and then "for f in cs.changes()": the next
\* command after row i of the loop named by phase, as [kind, idx]; kind is
\* "none" when both loops are exhausted.
NextFileOp(rows, phase, i) ==
    IF phase = "deletes" /\ NextRow(rows, i, TRUE) # 0
    THEN [kind |-> "D", idx |-> NextRow(rows, i, TRUE)]
    ELSE LET j == NextRow(rows, IF phase = "deletes" THEN 0 ELSE i, FALSE) IN
         IF j # 0 THEN [kind |-> "M", idx |-> j] ELSE [kind |-> "none", idx |-> 0]

\* for f in cs.deletes(): yield FileDeleteCommand
EmitDelete ==
    /\ pc \in {"deletes", "changes"}
    /\ NextFileOp(cs.rowsRelPaths, pc, rowIdx).kind = "D"
    /\ LET j == NextFileOp(cs.rowsRelPaths, pc, rowIdx).idx
           relpath == cs.rowsRelPaths[j].relpath
       IN  /\ rowIdx' = j
           /\ IF relpath.isNone
              THEN Fail("AttributeError") /\ out' = out
              ELSE IF ~check_path(Str(git_mangle_path(relpath.s)))
              THEN Fail("ValueError") /\ out' = out
              ELSE /\ out' = Append(out, FileDeleteCommand(git_mangle_path(relpath.s)))
                   /\ pc' = "deletes"
                   /\ error' = error
    /\ UNCHANGED <<inputVars, fnVars, user_cache, scratchVars, repo, csIter, cs, labelIter, markVars, tempdir, warnings,
                   histVars>>

\* What serializing the blob of a file-modify command writes and how it ends:
\* [blocks, err, td]; err = "" where serialize_data completes.
SerializeBlob(f, c, size) ==
    IF c.kind = "blocks"
    THEN IF c.bad THEN [blocks |-> <<>>, err |-> "zlib.error", td |-> c.td]
         ELSE IF ~MD5ValidatingIterator(f.HashValue, c.blocks)
         THEN [blocks |-> c.blocks, err |-> "checksum mismatch", td |-> c.td]
         ELSE IF ~LengthMatches(size, c.blocks)
         THEN [blocks |-> c.blocks, err |-> "fragmented blob length mismatch", td |-> c.td]
         ELSE [blocks |-> c.blocks, err |-> "", td |-> c.td]
    ELSE IF ~TdExists(c.td, f.FileId)
         THEN [blocks |-> <<>>, err |-> "FileNotFoundError", td |-> c.td]
         ELSE LET blocks == ReadBlocks(c.td[get_path(f.FileId)], read_block_size)
                  td     == TdUnlink(c.td, f.FileId)
              IN  IF ~MD5ValidatingIterator(f.HashValue, blocks)
                  THEN [blocks |-> blocks, err |-> "checksum mismatch", td |-> td]
                  ELSE IF ~LengthMatches(size, blocks)
                  THEN [blocks |-> blocks, err |-> "fragmented blob length mismatch", td |-> td]
                  ELSE [blocks |-> blocks, err |-> "", td |-> td]

\* for f in cs.changes(): the content is prepared, the file-modify command is
\* yielded and serialized with its blob.
EmitModify ==
    /\ pc \in {"deletes", "changes"}
    /\ NextFileOp(cs.rowsRelPaths, pc, rowIdx).kind = "M"
    /\ LET j == NextFileOp(cs.rowsRelPaths, pc, rowIdx).idx
           f == cs.rowsRelPaths[j].row
           relpath == cs.rowsRelPaths[j].relpath
           rw == content_rewrite(cs.branch, relpath, f.FileLength, content(f, tempdir))
           c == IF no_content THEN ContentResult(TRUE, "", tempdir, "blocks", FALSE, <<<<>>>>)
                ELSE rw.blocks
           size == IF no_content THEN 0 ELSE rw.length
           oversize == IF ~no_content /\ size >= oversize_warning_limit
                       THEN <<Warning("very large file", 0, cs.branch, cs.id)>> ELSE <<>>
       IN  /\ rowIdx' = j
           /\ IF ~c.ok
              THEN /\ Fail(c.err)
                   /\ tempdir' = c.td
                   /\ UNCHANGED <<out, warnings>>
              ELSE /\ warnings' = warnings \o oversize
                   /\ IF relpath.isNone
                      THEN Fail("AttributeError") /\ tempdir' = c.td /\ out' = out
                      ELSE IF ~check_path(Str(git_mangle_path(relpath.s)))
                      THEN Fail("ValueError") /\ tempdir' = c.td /\ out' = out
                      ELSE LET w == IF no_content
                                    THEN [blocks |-> c.blocks, err |-> "", td |-> tempdir]
                                    ELSE SerializeBlob(f, c, size)
                           IN  /\ tempdir' = w.td
                               /\ out' = Append(out, FileModifyCommand(
                                      git_mangle_path(relpath.s), f, size, w.blocks, w.err = ""))
                               /\ IF w.err = "" THEN pc' = "changes" /\ error' = error
                                  ELSE Fail(w.err)
    /\ UNCHANGED <<inputVars, fnVars, user_cache, scratchVars, repo, csIter, cs, labelIter, markVars, histVars>>

\* Both generators of the Changeset are exhausted: the loop takes the next changeset.
CommitDone ==
    /\ pc \in {"deletes", "changes"}
    /\ NextFileOp(cs.rowsRelPaths, pc, rowIdx).kind = "none"
    /\ pc' = "changesets"
    /\ UNCHANGED <<inputVars, fnVars, user_cache, scratchVars, error, repo, csIter, cs, rowIdx, labelIter, markVars,
                   tempdir, out, warnings, histVars>>

\* Fault: the stop_after test of the label loop is missing.
LabelBeyondStop_never(lbl) == FALSE

\* "if stop_after and lbl.changesetId > stop_after: continue"
LabelBeyondStop(lbl) == stop_after # 0 /\ lbl.changesetId > stop_after

\* Repository10.labels: the label rows and label entries are read.
FetchLabels ==
    /\ pc = "labels"
    /\ ~labelIter.started
    /\ \E entryRows \in EntryRowsOf(family) :
          labelIter' = [started |-> TRUE, entryRows |-> entryRows, items |-> labels(entryRows)]
    /\ UNCHANGED <<inputVars, fnVars, user_cache, scratchVars, pc, error, repo, csIter, cs, rowIdx, markVars, tempdir, out,
                   warnings, histVars>>

\* for lbl in repo.labels(): the next Label is yielded and skipped, warned about
\* or written as a tag.
NextLabel ==
    /\ pc = "labels"
    /\ labelIter.started
    /\ FirstLabel(labelIter.items) # 0
    /\ LET n   == FirstLabel(labelIter.items)
           lbl == labelIter.items[n]
           key == <<lbl.changesetId, lbl.branch>>
           mark == IF key \in DOMAIN marks THEN marks[key] ELSE NoneInt
           before == WarningsBefore(labelIter.items, n)
       IN  /\ labelIter' = [labelIter EXCEPT !.items = SubSeq(labelIter.items, n + 1, Len(labelIter.items))]
           /\ IF ~get_user_ok
              THEN /\ Fail("database error")
                   /\ warnings' = warnings \o before
                   /\ UNCHANGED <<out, labelsYielded, user_cache>>
              ELSE /\ labelsYielded' = Append(labelsYielded, lbl)
                   /\ UNCHANGED <<pc, error>>
                   /\ IF LabelBeyondStop(lbl)
                      THEN /\ warnings' = warnings \o before
                           /\ UNCHANGED <<out, user_cache>>
                      ELSE IF ~IntTruthy(mark)
                      THEN /\ warnings' = (warnings \o before)
                                \o <<Warning("skipping label", lbl.labelId, lbl.branch, lbl.changesetId)>>
                           /\ UNCHANGED <<out, user_cache>>
                      ELSE LET w == who_when(user_cache, LabelOwnerId(lbl.labelId)) IN
                           /\ warnings' = warnings \o before
                           /\ user_cache' = w.c
                           /\ out' = Append(out, TagCommand(lbl, mark, w.result))
    /\ UNCHANGED <<inputVars, fnVars, scratchVars, repo, csIter, cs, rowIdx, markVars, tempdir, fetched, yielded>>

\* repo.labels() is exhausted: the generator of commands ends.
LabelsExhausted ==
    /\ pc = "labels"
    /\ labelIter.started
    /\ FirstLabel(labelIter.items) = 0
    /\ warnings' = warnings \o WarningsBefore(labelIter.items, Len(labelIter.items) + 1)
    /\ labelIter' = [labelIter EXCEPT !.items = <<>>]
    /\ pc' = "done"
    /\ UNCHANGED <<inputVars, fnVars, user_cache, scratchVars, error, repo, csIter, cs, rowIdx, markVars, tempdir, out,
                   histVars>>

\* Fault: cleanup only where the block is left without exception.
Repository10_exit_onSuccess(dir, exc) ==
    IF exc = "" THEN TempDir_cleanup(dir) ELSE [ok |-> TRUE, dir |-> dir]

\* Repository10.__exit__(type, value, traceback): cleanup, whatever the exception.
Repository10_exit(dir, exc) == TempDir_cleanup(dir)

\* The "with create_repo(...) as repo" block of main is left, at the end of the
\* handler or with the exception that ended the run.
ExitScope ==
    /\ scope = "entered"
    /\ pc \in {"done", "failed"}
    /\ LET r == Repository10_exit(Dir(location_exists, tempdir), error) IN
       /\ location_exists' = r.dir.exists
       /\ tempdir' = r.dir.entries
    /\ scope' = "left"
    /\ UNCHANGED <<inputVars, fnVars, user_cache, tdtest, pc, error, repo, csIter, cs, rowIdx, labelIter, markVars,
                   out, warnings, histVars>>

\* ------------------------------------------------- a TempDir used on its own

\* td = TempDir(location, clear_location_if_existing); without location the
\* directory is a new one.
TdConstruct ==
    /\ pc = "tempdir"
    /\ tdtest.ops < MaxTdOps
    /\ \E hasLocation \in BOOLEAN, clear \in BOOLEAN :
          /\ hasLocation \/ ~location_exists
          /\ LET pre == Dir(location_exists, tempdir)
                 r   == TempDir_init(pre, hasLocation, clear)
             IN  /\ location_exists' = r.dir.exists
                 /\ tempdir' = r.dir.entries
                 /\ tdtest' = IF r.ok
                          THEN [tdtest EXCEPT !.obj = "live", !.last = "init", !.ok = TRUE,
                                          !.hasLocation = hasLocation, !.clear = clear,
                                          !.pre = pre, !.ops = @ + 1, !.created = {},
                                          !.removed = {}, !.kept = {},
                                          !.reader = NoReader]
                          ELSE [tdtest EXCEPT !.last = "init", !.ok = FALSE,
                                          !.hasLocation = hasLocation, !.clear = clear,
                                          !.pre = pre, !.ops = @ + 1, !.raises = @ + 1]
    /\ UNCHANGED <<inputVars, fnVars, user_cache, scope, pc, error, repo, csIter, cs, rowIdx, labelIter, markVars,
                   out, warnings, histVars>>

\* tdtest.create(name, content)
TdCreateEntry ==
    /\ pc = "tempdir"
    /\ tdtest.obj = "live"
    /\ tdtest.ops < MaxTdOps
    /\ ~tdtest.reader.active
    /\ \E name \in TdNames, data \in {<<>>, <<Run(2, 1), Run(1, 0)>>} :
          /\ tempdir' = TdCreate(tempdir, name, data)
          /\ tdtest' = [tdtest EXCEPT !.last = "create", !.ops = @ + 1, !.created = @ \cup {name}]
    /\ UNCHANGED <<inputVars, fnVars, user_cache, location_exists, scope, pc, error, repo, csIter, cs, rowIdx,
                   labelIter, markVars, out, warnings, histVars>>

\* g = tdtest.read(name, block_size, delete_at_end): a generator that has not run yet.
TdRead ==
    /\ pc = "tempdir"
    /\ tdtest.obj = "live"
    /\ tdtest.ops < MaxTdOps
    /\ ~tdtest.reader.active
    /\ \E name \in TdNames, delete_at_end \in BOOLEAN, block_size \in {2, read_block_size} :
          tdtest' = [tdtest EXCEPT !.last = "read", !.ops = @ + 1,
                           !.reader = [active |-> TRUE, name |-> name,
                                       delete_at_end |-> delete_at_end,
                                       block_size |-> block_size,
                                       opened |-> FALSE, rest |-> <<>>]]
    /\ UNCHANGED <<inputVars, fnVars, user_cache, location_exists, tempdir, scope, pc, error, repo, csIter, cs,
                   rowIdx, labelIter, markVars, out, warnings, histVars>>

\* Fault: the file is never unlinked.
ReadEnd_neverUnlink(entries, name, delete_at_end) == entries

\* Fault: the file is unlinked whatever delete_at_end.
ReadEnd_alwaysUnlink(entries, name, delete_at_end) == TdUnlink(entries, name)

\* The end of TempDir.read, after the last block: "if delete_at_end: os.unlink(path)".
ReadEnd(entries, name, delete_at_end) ==
    IF delete_at_end THEN TdUnlink(entries, name) ELSE entries

\* next(g): the generator opens the file at its first step (FileNotFoundError
\* where it is missing), yields the next block, or ends after the last one.
TdReadNext ==
    /\ pc = "tempdir"
    /\ tdtest.obj = "live"
    /\ tdtest.reader.active
    /\ LET g == tdtest.reader IN
       IF ~g.opened /\ ~TdExists(tempdir, g.name)
       THEN /\ tdtest' = [tdtest EXCEPT !.last = "FileNotFoundError", !.reader = NoReader]
            /\ tempdir' = tempdir
       ELSE LET rest == IF g.opened THEN g.rest
                        ELSE ReadBlocks(tempdir[get_path(g.name)], g.block_size)
            IN  IF rest # <<>>
                THEN /\ tdtest' = [tdtest EXCEPT !.last = "block",
                                         !.reader = [g EXCEPT !.opened = TRUE, !.rest = Tail(rest)]]
                     /\ tempdir' = tempdir
                ELSE /\ tdtest' = [tdtest EXCEPT !.last = "StopIteration", !.reader = NoReader,
                                         !.created = IF g.delete_at_end THEN @ \ {g.name} ELSE @,
                                         !.removed = IF g.delete_at_end THEN @ \cup {g.name} ELSE @,
                                         !.kept = IF g.delete_at_end THEN @ ELSE @ \cup {g.name}]
                     /\ tempdir' = ReadEnd(tempdir, g.name, g.delete_at_end)
    /\ UNCHANGED <<inputVars, fnVars, user_cache, location_exists, scope, pc, error, repo, csIter, cs, rowIdx,
                   labelIter, markVars, out, warnings, histVars>>

\* The generator is dropped before its end: the file is closed, nothing else.
TdReadAbandon ==
    /\ pc = "tempdir"
    /\ tdtest.obj = "live"
    /\ tdtest.reader.active
    /\ tdtest' = [tdtest EXCEPT !.last = "abandon", !.reader = NoReader]
    /\ UNCHANGED <<inputVars, fnVars, user_cache, location_exists, tempdir, scope, pc, error, repo, csIter, cs,
                   rowIdx, labelIter, markVars, out, warnings, histVars>>

\* TempDir.__exit__: the "with TempDir(...) as td" block is left.
TdExit ==
    /\ pc = "tempdir"
    /\ tdtest.obj = "live"
    /\ LET r == TempDir_cleanup(Dir(location_exists, tempdir)) IN
       /\ location_exists' = r.dir.exists
       /\ tempdir' = r.dir.entries
    /\ tdtest' = [tdtest EXCEPT !.obj = "left", !.last = "exit", !.reader = NoReader, !.created = {}]
    /\ UNCHANGED <<inputVars, fnVars, user_cache, scope, pc, error, repo, csIter, cs, rowIdx, labelIter, markVars,
                   out, warnings, histVars>>

Next ==
    \/ CreateRepo
    \/ FetchChangeset
    \/ NextChangeset
    \/ ChangesetsExhausted
    \/ EmitCommit
    \/ EmitDelete
    \/ EmitModify
    \/ CommitDone
    \/ FetchLabels
    \/ NextLabel
    \/ LabelsExhausted
    \/ ExitScope
    \/ TdConstruct
    \/ TdCreateEntry
    \/ TdRead
    \/ TdReadNext
    \/ TdReadAbandon
    \/ TdExit

Spec == Init /\ [][Next]_vars

\* ------------------------------------------------- the mark allocator alone
\* generate_mark called with arbitrary arguments, as a closure used on its own.

AllocBranches == {"main", "dev"}

AllocChangesets == {7, 8}

InitAlloc ==
    /\ family = "files"
    /\ tbl_ChangeSet = {}
    /\ has_tbl_identity = TRUE
    /\ stop_after = 0
    /\ skip_tags = TRUE
    /\ no_content = FALSE
    /\ pc = "generate_mark"
    /\ error = ""
    /\ repo = "none"
    /\ csIter = [i |-> 0, pending |-> <<>>]
    /\ cs = NoChangeset
    /\ rowIdx = 0
    /\ labelIter = [started |-> FALSE, entryRows |-> <<>>, items |-> <<>>]
    /\ marks = <<>>
    /\ marks_last_changesetId = NoneInt
    /\ marks_last_issued = NoneInt
    /\ marks_last_issued_per_branch = <<>>
    /\ tempdir = <<>>
    /\ location_exists = FALSE
    /\ scope = "none"
    /\ tdtest = NoTempDir
    /\ user_cache = NoLookups
    /\ fn_arg = <<>>
    /\ fn_call = NoCall
    /\ item = <<>>
    /\ walk = NoWalk
    /\ it = NoIterator
    /\ out = <<>>
    /\ warnings = <<>>
    /\ fetched = <<>>
    /\ yielded = <<>>
    /\ labelsYielded = <<>>
    /\ allocLog = <<>>

\* mark = generate_mark(branch, changesetId)
Allocate ==
    /\ pc = "generate_mark"
    /\ Len(allocLog) < MaxAllocs
    /\ \E branch \in AllocBranches, changesetId \in AllocChangesets :
          SetMarkState(generate_mark(MarkState, branch, changesetId), branch, changesetId)
    /\ UNCHANGED <<inputVars, fnVars, user_cache, scratchVars, pc, error, repo, csIter, cs, rowIdx, labelIter, tempdir, out,
                   warnings, histVars>>

NextAlloc == Allocate

SpecAlloc == InitAlloc /\ [][NextAlloc]_vars

\* ------------------------------------------------ the path functions alone
\* tfs_unmangle_path and format_path called on arbitrary paths.

PathSymbols == {"a", ">", "\"", "|", "\\", " ", "\n", "é"}

PathsUpTo(n) == UNION {[1..k -> PathSymbols] : k \in 0..n}

InitFn ==
    /\ family = "files"
    /\ tbl_ChangeSet = {}
    /\ has_tbl_identity = TRUE
    /\ stop_after = 0
    /\ skip_tags = TRUE
    /\ no_content = FALSE
    /\ pc = "path"
    /\ error = ""
    /\ repo = "none"
    /\ csIter = [i |-> 0, pending |-> <<>>]
    /\ cs = NoChangeset
    /\ rowIdx = 0
    /\ labelIter = [started |-> FALSE, entryRows |-> <<>>, items |-> <<>>]
    /\ marks = <<>>
    /\ marks_last_changesetId = NoneInt
    /\ marks_last_issued = NoneInt
    /\ marks_last_issued_per_branch = <<>>
    /\ tempdir = <<>>
    /\ location_exists = FALSE
    /\ scope = "none"
    /\ tdtest = NoTempDir
    /\ user_cache = NoLookups
    /\ fn_arg \in PathsUpTo(MaxPathLen)
    /\ fn_call = NoCall
    /\ item = <<>>
    /\ walk = NoWalk
    /\ it = NoIterator
    /\ out = <<>>
    /\ warnings = <<>>
    /\ fetched = <<>>
    /\ yielded = <<>>
    /\ labelsYielded = <<>>
    /\ allocLog = <<>>

\* x = tfs_unmangle_path(x), on the argument and then on each result.
Unmangle ==
    /\ pc = "path"
    /\ fn_call.fn \in {"", "tfs_unmangle_path"}
    /\ Len(fn_call.results) < MaxApply
    /\ LET x == IF fn_call.results = <<>> THEN fn_arg
                ELSE fn_call.results[Len(fn_call.results)]
       IN  fn_call' = [fn_call EXCEPT !.fn = "tfs_unmangle_path",
                                      !.results = Append(@, tfs_unmangle_path(x))]
    /\ UNCHANGED <<inputVars, scratchVars, user_cache, fn_arg, item, walk, it, pc, error, repo, csIter, cs, rowIdx,
                   labelIter, markVars, tempdir, out, warnings, histVars>>

\* format_path(p, quote_spaces)
FormatPath ==
    /\ pc = "path"
    /\ fn_call.fn = ""
    /\ \E quote_spaces \in BOOLEAN :
          fn_call' = [fn |-> "format_path", quote_spaces |-> quote_spaces,
                      results |-> <<format_path(fn_arg, quote_spaces)>>]
    /\ UNCHANGED <<inputVars, scratchVars, user_cache, fn_arg, item, walk, it, pc, error, repo, csIter, cs, rowIdx,
                   labelIter, markVars, tempdir, out, warnings, histVars>>

NextFn == Unmangle \/ FormatPath

SpecFn == InitFn /\ [][NextFn]_vars

\* ------------------------------------------- FileContentChange on its own
\* content() requested for the delta-typed revisions of one item, and the
\* stream it returns read to its end.

\* The groups the chain query returns for the oldest revision of the item:
\* the newest revision in full, then one backward delta per older revision,
\* file ids descending.
HeadContents ==
    { [CompressionType |-> 0, Content |-> <<Run(2, 1)>>],
      [CompressionType |-> 1, Content |-> <<Run(1, GzipMagic) \o Run(1, 1), Run(1, 1)>>],
      [CompressionType |-> 0, Content |-> <<Run(msdelta_decompress_on_disk_threshold, 1)>>] }

DeltaContents == { <<Run(1, 0)>>, <<Run(1, 1), Run(1, 0)>>, <<Run(2, 2)>>, << <<>> >> }

ItemFileId(len, i) == 10 + len - i + 1

Items ==
    UNION { { [i \in 1..len |->
                 IF i = 1 THEN ChainGroup(ItemFileId(len, 1), h.CompressionType, h.Content)
                 ELSE ChainGroup(ItemFileId(len, i), 0, d[i])]
              : h \in HeadContents, d \in [1..len -> DeltaContents] }
            : len \in 1..MaxChain }

\* The bytes of the revision at position p of the chain: the full text of the
\* newest revision with the deltas down to p applied in turn.
RECURSIVE RevisionBytes(_, _)
RevisionBytes(chain, p) ==
    IF p = 1 THEN Join(tfs_decompress(chain[1].CompressionType, chain[1].Content).blocks)
    ELSE ApplyDeltaB(RevisionBytes(chain, p - 1), Join(chain[p].Content)).data

\* The row of the delta-typed revision at position p, with the chain its query
\* returns: the groups from the newest revision down to it.
RevisionRow(chain, p, fileLength) ==
    FileRow(pMa, chain[p].FileId, 0, 2, chain[p].CompressionType, fileLength,
            md5(RevisionBytes(chain, p)), chain[p].Content, SubSeq(chain, 1, p))

InitDelta ==
    /\ family = "files"
    /\ tbl_ChangeSet = {}
    /\ has_tbl_identity = TRUE
    /\ stop_after = 0
    /\ skip_tags = TRUE
    /\ no_content = FALSE
    /\ pc = "content"
    /\ error = ""
    /\ repo = "none"
    /\ csIter = [i |-> 0, pending |-> <<>>]
    /\ cs = NoChangeset
    /\ rowIdx = 0
    /\ labelIter = [started |-> FALSE, entryRows |-> <<>>, items |-> <<>>]
    /\ marks = <<>>
    /\ marks_last_changesetId = NoneInt
    /\ marks_last_issued = NoneInt
    /\ marks_last_issued_per_branch = <<>>
    /\ tempdir = <<>>
    /\ location_exists = TRUE
    /\ scope = "none"
    /\ tdtest = NoTempDir
    /\ user_cache = NoLookups
    /\ fn_arg = <<>>
    /\ fn_call = NoCall
    /\ item \in Items
    /\ walk = NoWalk
    /\ it = NoIterator
    /\ out = <<>>
    /\ warnings = <<>>
    /\ fetched = <<>>
    /\ yielded = <<>>
    /\ labelsYielded = <<>>
    /\ allocLog = <<>>

\* f.content() for a delta-typed revision: "if not self.tempdir.exists(self.id)"
\* decides between walking the chain and reading the entry at once.  The
\* newest revision of a chain of several groups is stored in full and is not
\* delta-typed.
RequestContent ==
    /\ pc = "content"
    /\ walk.phase = "idle"
    /\ Len(walk.log) < MaxRequests
    /\ \E p \in 1..Len(item), fileLength \in {3, msdelta_decompress_on_disk_threshold + 1} :
          /\ p > 1 \/ Len(item) = 1
          /\ walk' = [walk EXCEPT !.phase = IF TdExists(tempdir, item[p].FileId)
                                            THEN "read" ELSE "unpack",
                                  !.rev = item[p].FileId, !.p = p,
                                  !.FileLength = fileLength, !.n = 0,
                                  !.walked = ~TdExists(tempdir, item[p].FileId),
                                  !.td0 = tempdir]
    /\ UNCHANGED <<inputVars, scratchVars, user_cache, fn_arg, fn_call, item, it, pc, error, repo,
                   csIter, cs, rowIdx, labelIter, markVars, tempdir, out, warnings, histVars>>

\* One turn of the loop over rowsByFileId in _unpack_deltas_to_tempdir: the
\* next group of the chain is unpacked or applied.
UnpackStep ==
    /\ pc = "content"
    /\ walk.phase = "unpack"
    /\ LET f == [RevisionRow(item, walk.p, walk.FileLength) EXCEPT
                    !.Chain = SubSeq(item, 1, walk.n + 1)]
           u == unpack_deltas_to_tempdir(f, walk.td0)
       IN  /\ tempdir' = u.td
           /\ walk' = IF ~u.ok
                      THEN [walk EXCEPT !.phase = "failed", !.n = @ + 1,
                                        !.log = Append(@, [rev |-> walk.rev, walked |-> TRUE,
                                                           err |-> "delta", data |-> <<>>])]
                      ELSE [walk EXCEPT !.n = @ + 1,
                                        !.phase = IF walk.n + 1 = walk.p THEN "read"
                                                  ELSE "unpack"]
    /\ UNCHANGED <<inputVars, scratchVars, user_cache, fn_arg, fn_call, item, it, pc, error, repo,
                   csIter, cs, rowIdx, labelIter, markVars, out, warnings, histVars>>

\* The MD5ValidatingIterator over tempdir.read(self.id, delete_at_end = True)
\* is consumed to its end.
StreamContent ==
    /\ pc = "content"
    /\ walk.phase = "read"
    /\ IF ~TdExists(tempdir, walk.rev)
       THEN /\ tempdir' = tempdir
            /\ walk' = [walk EXCEPT !.phase = "failed",
                            !.log = Append(@, [rev |-> walk.rev, walked |-> walk.walked,
                                               err |-> "FileNotFoundError", data |-> <<>>])]
       ELSE LET blocks == ReadBlocks(tempdir[get_path(walk.rev)], read_block_size)
                hash == RevisionRow(item, walk.p, walk.FileLength).HashValue
            IN  /\ tempdir' = ReadEnd(tempdir, walk.rev, TRUE)
                /\ walk' = [walk EXCEPT !.phase = "idle",
                                !.log = Append(@, [rev |-> walk.rev, walked |-> walk.walked,
                                                   err |-> IF MD5ValidatingIterator(hash, blocks)
                                                           THEN "" ELSE "checksum mismatch",
                                                   data |-> Join(blocks)])]
    /\ UNCHANGED <<inputVars, scratchVars, user_cache, fn_arg, fn_call, item, it, pc, error, repo,
                   csIter, cs, rowIdx, labelIter, markVars, out, warnings, histVars>>

NextDelta == RequestContent \/ UnpackStep \/ StreamContent

SpecDelta == InitDelta /\ [][NextDelta]_vars

\* -------------------------------------------------- the iterators alone
\* PeekableIterator and MD5ValidatingIterator over arbitrary sequences.

\* next(self.iter) on the wrapped iterator: [ok, value, pos]; ok is FALSE where
\* it raises StopIteration.
WrappedNext(i) ==
    IF i.pos < Len(i.src) THEN [ok |-> TRUE, value |-> i.src[i.pos + 1], pos |-> i.pos + 1]
    ELSE [ok |-> FALSE, value |-> 0, pos |-> i.pos]

\* Fault: peek hands the element out like next.
PeekableIterator_peek_consuming(i) ==
    LET n == WrappedNext(i) IN
    IF n.ok THEN [i EXCEPT !.pos = n.pos, !.last = CallResult("peek", "value", n.value)]
    ELSE [i EXCEPT !.last = CallResult("peek", "StopIteration", 0)]

\* PeekableIterator.peek
PeekableIterator_peek(i) ==
    IF i.peeked = <<>>
    THEN LET n == WrappedNext(i) IN
         IF n.ok THEN [i EXCEPT !.pos = n.pos, !.peeked = <<n.value>>,
                                !.last = CallResult("peek", "value", n.value)]
         ELSE [i EXCEPT !.last = CallResult("peek", "StopIteration", 0)]
    ELSE [i EXCEPT !.last = CallResult("peek", "value", i.peeked[1])]

\* PeekableIterator.__next__
PeekableIterator_next(i) ==
    IF i.peeked # <<>>
    THEN [i EXCEPT !.peeked = Tail(@), !.returned = Append(@, i.peeked[1]),
                   !.last = CallResult("next", "value", i.peeked[1])]
    ELSE LET n == WrappedNext(i) IN
         IF n.ok THEN [i EXCEPT !.pos = n.pos, !.returned = Append(@, n.value),
                                !.last = CallResult("next", "value", n.value)]
         ELSE [i EXCEPT !.last = CallResult("next", "StopIteration", 0)]

\* Fault: the digest is compared after every block.
MD5ValidatingIterator_next_eager(i) ==
    LET n == WrappedNext(i) IN
    IF n.ok
    THEN IF md5(Normalize(i.running \o n.value)) # i.checksum
         THEN [i EXCEPT !.pos = n.pos, !.running = Normalize(@ \o n.value),
                        !.last = CallResult("next", "checksum mismatch", 0)]
         ELSE [i EXCEPT !.pos = n.pos, !.running = Normalize(@ \o n.value),
                        !.returned = Append(@, n.value),
                        !.last = CallResult("next", "value", n.value)]
    ELSE [i EXCEPT !.last = CallResult("next", "StopIteration", 0)]

\* MD5ValidatingIterator.__next__
MD5ValidatingIterator_next(i) ==
    LET n == WrappedNext(i) IN
    IF n.ok
    THEN [i EXCEPT !.pos = n.pos, !.running = Normalize(@ \o n.value),
                   !.returned = Append(@, n.value),
                   !.last = CallResult("next", "value", n.value)]
    ELSE IF md5(i.running) # i.checksum
         THEN [i EXCEPT !.last = CallResult("next", "checksum mismatch", 0)]
         ELSE [i EXCEPT !.last = CallResult("next", "StopIteration", 0)]

IterElements == {0, 11, 22}

IterBlocks == {<<>>, Run(1, 1), Run(2, 0)}

SeqsUpTo(S, n) == UNION {[1..k -> S] : k \in 0..n}

\* A digest other than d.
Perturbed(d) == (d + 1) % 13

InitIter ==
    /\ family = "files"
    /\ tbl_ChangeSet = {}
    /\ has_tbl_identity = TRUE
    /\ stop_after = 0
    /\ skip_tags = TRUE
    /\ no_content = FALSE
    /\ pc = "iterator"
    /\ error = ""
    /\ repo = "none"
    /\ csIter = [i |-> 0, pending |-> <<>>]
    /\ cs = NoChangeset
    /\ rowIdx = 0
    /\ labelIter = [started |-> FALSE, entryRows |-> <<>>, items |-> <<>>]
    /\ marks = <<>>
    /\ marks_last_changesetId = NoneInt
    /\ marks_last_issued = NoneInt
    /\ marks_last_issued_per_branch = <<>>
    /\ tempdir = <<>>
    /\ location_exists = FALSE
    /\ scope = "none"
    /\ tdtest = NoTempDir
    /\ user_cache = NoLookups
    /\ fn_arg = <<>>
    /\ fn_call = NoCall
    /\ item = <<>>
    /\ walk = NoWalk
    /\ \/ \E src \in SeqsUpTo(IterElements, MaxIterLen) :
             it = Iterator("PeekableIterator", src, 0)
       \/ \E src \in SeqsUpTo(IterBlocks, MaxIterLen) :
             \E checksum \in {md5(Join(src)), Perturbed(md5(Join(src)))} :
                it = Iterator("MD5ValidatingIterator", src, checksum)
    /\ out = <<>>
    /\ warnings = <<>>
    /\ fetched = <<>>
    /\ yielded = <<>>
    /\ labelsYielded = <<>>
    /\ allocLog = <<>>

\* i.peek()
Peek ==
    /\ pc = "iterator"
    /\ it.kind = "PeekableIterator"
    /\ it' = PeekableIterator_peek(it)
    /\ UNCHANGED <<inputVars, scratchVars, user_cache, fn_arg, fn_call, item, walk, pc, error,
                   repo, csIter, cs, rowIdx, labelIter, markVars, tempdir, out, warnings,
                   histVars>>

\* next(i) on a PeekableIterator
PeekableNext ==
    /\ pc = "iterator"
    /\ it.kind = "PeekableIterator"
    /\ it' = PeekableIterator_next(it)
    /\ UNCHANGED <<inputVars, scratchVars, user_cache, fn_arg, fn_call, item, walk, pc, error,
                   repo, csIter, cs, rowIdx, labelIter, markVars, tempdir, out, warnings,
                   histVars>>

\* next(i) on an MD5ValidatingIterator
ValidatingNext ==
    /\ pc = "iterator"
    /\ it.kind = "MD5ValidatingIterator"
    /\ it' = MD5ValidatingIterator_next(it)
    /\ UNCHANGED <<inputVars, scratchVars, user_cache, fn_arg, fn_call, item, walk, pc, error,
                   repo, csIter, cs, rowIdx, labelIter, markVars, tempdir, out, warnings,
                   histVars>>

NextIter == Peek \/ PeekableNext \/ ValidatingNext

SpecIter == InitIter /\ [][NextIter]_vars

\* =================================================================== claims

\* Indices of the commit commands of the stream.
CommitIdxs == {i \in 1..Len(out) : out[i].type = "commit"}

\* Number of commit commands among the first i commands.
CommitsUpTo(i) == Cardinality({j \in 1..i : out[j].type = "commit"})

\* The commit commands in stream order.
Commits == SelectSeq(out, LAMBDA c : c.type = "commit")

\* ----------------------------------------------------------------------- C1
\* C1: every merge mark written in a commit command was returned by an earlier
\* call of generate_mark and is the mark of a commit command written earlier in
\* the stream.
C1_MergeMarksDeclared ==
    \A i \in CommitIdxs :
        \A k \in 1..Len(out[i].merges) :
            /\ \E j \in 1..(i - 1) : out[j].type = "commit" /\ out[j].mark = out[i].merges[k]
            /\ \E a \in 1..(CommitsUpTo(i) - 1) : allocLog[a].mark = out[i].merges[k]

\* A commit with two merge parents, one found by (version, branch) and one by
\* the last mark of its branch.
C1_Witness ==
    \E i \in CommitIdxs :
        /\ Len(out[i].merges) = 2
        /\ out[i].merges[1] # out[i].merges[2]
        /\ out[i].cs = MaxCs

C3_MarksIncreaseAlongStream ==
    \A i \in CommitIdxs : \A j \in CommitIdxs :
        out[i].mark < out[j].mark => i < j

\* ----------------------------------------------------------------------- C4
\* C4: commits are written in ascending changeset id; of two commits on one
\* branch the one with the smaller changeset id is written strictly first.
C4_AscendingChangesets ==
    \A i \in CommitIdxs : \A j \in CommitIdxs :
        /\ i < j => out[i].cs <= out[j].cs
        /\ (out[i].branch = out[j].branch /\ out[i].cs < out[j].cs) => i < j

\* Two commits on one branch from different changesets, and a commit on another
\* branch between them.
C4_Witness ==
    \E i \in CommitIdxs : \E j \in CommitIdxs : \E k \in CommitIdxs :
        /\ i < k /\ k < j
        /\ out[i].branch = out[j].branch
        /\ out[i].cs < out[j].cs
        /\ out[k].branch # out[i].branch

\* ----------------------------------------------------------------------- C5

\* The branch the hooks give a file row.
BranchOf(row) == branch_extract(tfs_unmangle_path(row.FullPath)).branch

\* A row that has a branch and whose relpath, if any, file_filter accepts.
Survives(row) ==
    LET e == branch_extract(tfs_unmangle_path(row.FullPath)) IN
    /\ e.branch # None
    /\ StrTruthy(e.relpath) => file_filter(e.branch, e.relpath.s)

\* The branches the surviving rows map to.
BranchesOf(rows) == {BranchOf(rows[i]) : i \in {j \in 1..Len(rows) : Survives(rows[j])}}

\* The surviving rows of branch b, in row order.
SurvivingOn(rows, b) == SelectSeq(rows, LAMBDA r : Survives(r) /\ BranchOf(r) = b)

\* The n-th source changeset read has had all its Changeset objects yielded.
FullyYielded(n) == n < csIter.i \/ (n = csIter.i /\ csIter.pending = <<>>)

\* The Changeset objects yielded for changeset id.
YieldedFor(id) == SelectSeq(yielded, LAMBDA c : c.id = id)

\* C5: a source changeset whose surviving file rows map to k branches yields k
\* Changesets, one per branch, each holding exactly the surviving rows of its
\* branch; rows without branch or rejected by file_filter are in none, and a
\* changeset without surviving row yields none.  The commits written are those of
\* the Changesets yielded, one each and in order, up to the one in progress.
C5_BranchPartition ==
    /\ \A n \in 1..Len(fetched) :
          FullyYielded(n) =>
             LET rows == fetched[n].rows
                 ys   == YieldedFor(fetched[n].id)
                 bs   == BranchesOf(rows)
             IN  /\ Len(ys) = Cardinality(bs)
                 /\ \A k \in 1..Len(ys) :
                       /\ ys[k].branch \in bs
                       /\ RowsOf(ys[k].rowsRelPaths) = SurvivingOn(rows, ys[k].branch)
                       /\ \A j \in 1..Len(ys) : ys[j].branch = ys[k].branch => j = k
    /\ Len(Commits) <= Len(yielded)
    /\ \A k \in 1..Len(Commits) :
          Commits[k].cs = yielded[k].id /\ Commits[k].branch = yielded[k].branch
    /\ pc = "done" /\ stop_after = 0 => Len(Commits) = Len(yielded)

\* A run that ended after a changeset of four rows that yielded two commits (one
\* row without branch, one rejected by file_filter) and a changeset whose two rows
\* both were dropped.
C5_Witness ==
    /\ pc = "done"
    /\ \E n \in 1..Len(fetched) : \E m \in 1..Len(fetched) :
          /\ FullyYielded(n) /\ FullyYielded(m)
          /\ Len(fetched[n].rows) = 4
          /\ Cardinality(BranchesOf(fetched[n].rows)) = 2
          /\ Cardinality({i \in CommitIdxs : out[i].cs = fetched[n].id}) = 2
          /\ Len(fetched[m].rows) = 2
          /\ BranchesOf(fetched[m].rows) = {}
          /\ {i \in 1..Len(out) : out[i].cs = fetched[m].id} = {}

\* ----------------------------------------------------------------------- C6
\* C6: the stream is (progress, commit, file-delete*, file-modify*)* tag*: a
\* commit follows its progress command, deletes follow the commit or a delete,
\* modifies follow the commit, a delete or a modify, a tag follows no progress
\* command and nothing but tags follows a tag; a complete stream does not end in a
\* progress command.
C6_StreamShape ==
    /\ \A i \in 1..Len(out) :
          LET prev == IF i = 1 THEN "" ELSE out[i - 1].type IN
          /\ out[i].type \in {"progress", "commit", "D", "M", "tag"}
          /\ out[i].type = "progress" => prev \in {"", "commit", "D", "M"}
          /\ out[i].type = "commit" => prev = "progress"
          /\ out[i].type = "D" => prev \in {"commit", "D"}
          /\ out[i].type = "M" => prev \in {"commit", "D", "M"}
          /\ out[i].type = "tag" => prev \in {"", "commit", "D", "M", "tag"}
    /\ \A i \in 1..Len(out) : \A j \in 1..Len(out) :
          (out[i].type = "tag" /\ i < j) => out[j].type = "tag"
    /\ (pc = "done" /\ out # <<>>) => out[Len(out)].type # "progress"

\* A complete stream with a commit whose delete comes from a row after the row of
\* its modify, a later commit, and a tag at the end.
C6_Witness ==
    /\ pc = "done"
    /\ out # <<>>
    /\ out[Len(out)].type = "tag"
    /\ \E i \in 2..(Len(out) - 3) :
          /\ out[i - 1].type = "commit"
          /\ out[i].type = "D" /\ out[i].path = <<"d", "/", "b", "_">>
          /\ out[i + 1].type = "M" /\ out[i + 1].path = <<"a">>
          /\ out[i + 2].type = "progress"

\* ----------------------------------------------------------------------- C7
\* C7 as stated: every file-modify blob written in full hashes to the MD5 of its
\* row.
C7_EveryBlobValidated ==
    \A i \in 1..Len(out) :
        (out[i].type = "M" /\ out[i].complete) => md5(Join(out[i].blocks)) = out[i].hash

\* C7, amended: when no_content is not set (and content_rewrite passes the
\* content through), every file-modify blob written in full hashes to the MD5 of
\* its row and has the length of its row, and a blob whose content does not hash
\* to it is the last command of a failed run; this for full-text and for delta
\* revisions.
C7_BlobsValidatedUnlessNoContent ==
    ~no_content =>
        \A i \in 1..Len(out) :
            out[i].type = "M" =>
                IF out[i].complete
                THEN /\ md5(Join(out[i].blocks)) = out[i].hash
                     /\ BytesLen(Join(out[i].blocks)) = out[i].size
                ELSE /\ pc = "failed"
                     /\ i = Len(out)
                     /\ (md5(Join(out[i].blocks)) # out[i].hash /\ out[i].blocks # <<>>)
                        => error = "checksum mismatch"

\* A run that wrote a validated full-text blob and then failed on a delta
\* revision whose content does not hash to the MD5 of its row.
C7_Witness ==
    /\ ~no_content
    /\ pc = "failed"
    /\ error = "checksum mismatch"
    /\ out # <<>>
    /\ out[Len(out)].type = "M"
    /\ out[Len(out)].contentType = 2
    /\ ~out[Len(out)].complete
    /\ md5(Join(out[Len(out)].blocks)) # out[Len(out)].hash
    /\ \E i \in 1..(Len(out) - 1) :
          out[i].type = "M" /\ out[i].contentType = 1 /\ out[i].complete

\* ----------------------------------------------------------------------- C8
\* C8: when tbl_Identity is absent create_repo raises NotImplementedError, no
\* repository is created and nothing is written; a repository is returned only
\* when the table is present.
C8_SchemaRejection ==
    pc # "create_repo" =>
        IF has_tbl_identity
        THEN repo = "Repository10"
        ELSE repo = "none" /\ error = "NotImplementedError" /\ out = <<>>

\* ----------------------------------------------------------------------- C9

\* Indices of the tags written for the Label lbl.
TagsOf(lbl) ==
    {i \in 1..Len(out) :
        out[i].type = "tag" /\ out[i].labelId = lbl.labelId /\ out[i].branch = lbl.branch}

\* Indices of the "skipping label" warnings for the Label lbl.
SkipWarningsOf(lbl) ==
    {i \in 1..Len(warnings) :
        /\ warnings[i].kind = "skipping label"
        /\ warnings[i].labelId = lbl.labelId
        /\ warnings[i].branch = lbl.branch}

\* C9 as stated: after a complete run with tags, every label without mark,
\* those beyond stop_after included, has one warning and no tag, and every label
\* with a mark has exactly one tag, which references the mark.
C9_UnreachableLabelsWarn ==
    (pc = "done" /\ ~skip_tags) =>
        \A n \in 1..Len(labelsYielded) :
            LET lbl == labelsYielded[n]
                key == <<lbl.changesetId, lbl.branch>>
            IN  IF key \in DOMAIN marks
                THEN /\ Cardinality(TagsOf(lbl)) = 1
                     /\ \A i \in TagsOf(lbl) : out[i].mark = marks[key]
                     /\ SkipWarningsOf(lbl) = {}
                ELSE /\ TagsOf(lbl) = {}
                     /\ Cardinality(SkipWarningsOf(lbl)) = 1

\* C9, amended: a label without mark has no tag; it has one warning unless
\* stop_after is set and its changeset id is beyond stop_after, and then it has
\* none.  Every label with a mark has exactly one tag, which references the mark.
C9_UnreachableLabelsWarnUpToStop ==
    (pc = "done" /\ ~skip_tags) =>
        \A n \in 1..Len(labelsYielded) :
            LET lbl == labelsYielded[n]
                key == <<lbl.changesetId, lbl.branch>>
            IN  IF key \in DOMAIN marks
                THEN /\ Cardinality(TagsOf(lbl)) = 1
                     /\ \A i \in TagsOf(lbl) : out[i].mark = marks[key]
                     /\ SkipWarningsOf(lbl) = {}
                ELSE /\ TagsOf(lbl) = {}
                     /\ Cardinality(SkipWarningsOf(lbl)) =
                           IF stop_after # 0 /\ lbl.changesetId > stop_after THEN 0 ELSE 1

\* A complete run with stop_after set: one label tagged, one label on an
\* exported changeset without commit on its branch warned about, one label
\* beyond stop_after skipped without warning.
C9_Witness ==
    /\ pc = "done"
    /\ ~skip_tags
    /\ stop_after # 0
    /\ \E a \in 1..Len(labelsYielded) : \E b \in 1..Len(labelsYielded) :
       \E c \in 1..Len(labelsYielded) :
          /\ Cardinality(TagsOf(labelsYielded[a])) = 1
          /\ TagsOf(labelsYielded[b]) = {}
          /\ labelsYielded[b].changesetId <= stop_after
          /\ Cardinality(SkipWarningsOf(labelsYielded[b])) = 1
          /\ labelsYielded[c].changesetId > stop_after
          /\ TagsOf(labelsYielded[c]) = {}
          /\ SkipWarningsOf(labelsYielded[c]) = {}

\* ---------------------------------------------------------------------- C10

\* The distinct VersionFrom of the surviving entries of label l on branch b.
VersionsOn(entryRows, l, b) ==
    {entryRows[i].VersionFrom :
        i \in {j \in 1..Len(entryRows) :
                 /\ Survives(entryRows[j])
                 /\ BranchOf(entryRows[j]) = b
                 /\ entryRows[j].LabelId = l}}

\* Indices of the "ignoring label" warnings for label l on branch b.
IgnoreWarningsOf(l, b) ==
    {i \in 1..Len(warnings) :
        /\ warnings[i].kind = "ignoring label"
        /\ warnings[i].labelId = l
        /\ warnings[i].branch = b}

\* Indices of the Labels yielded for label l on branch b.
LabelsOf(l, b) ==
    {i \in 1..Len(labelsYielded) : labelsYielded[i].labelId = l /\ labelsYielded[i].branch = b}

\* C10: once labels() is exhausted, a label whose entries on a branch span more
\* than one VersionFrom has no Label, no tag and exactly one warning; a (label,
\* branch) group with a single VersionFrom has one Label, at that changeset id,
\* and no warning.
C10_LabelFiltering ==
    (pc = "done" /\ ~skip_tags) =>
        \A l \in DOMAIN labelRows : \A b \in {"M", "D"} :
            LET vs == VersionsOn(labelIter.entryRows, l, b) IN
            /\ Cardinality(vs) > 1 =>
                  /\ Cardinality(IgnoreWarningsOf(l, b)) = 1
                  /\ LabelsOf(l, b) = {}
                  /\ {i \in 1..Len(out) :
                        out[i].type = "tag" /\ out[i].labelId = l /\ out[i].branch = b} = {}
            /\ Cardinality(vs) = 1 =>
                  /\ IgnoreWarningsOf(l, b) = {}
                  /\ Cardinality(LabelsOf(l, b)) = 1
                  /\ \A i \in LabelsOf(l, b) : labelsYielded[i].changesetId \in vs
            /\ vs = {} => (IgnoreWarningsOf(l, b) = {} /\ LabelsOf(l, b) = {})

\* A complete run in which one label spans two changesets on both branches (two
\* warnings, no tag) and another label has a single entry and is tagged.
C10_Witness ==
    /\ pc = "done"
    /\ ~skip_tags
    /\ Cardinality(VersionsOn(labelIter.entryRows, 1, "M")) = 2
    /\ Cardinality(VersionsOn(labelIter.entryRows, 1, "D")) = 2
    /\ Cardinality(IgnoreWarningsOf(1, "M")) = 1
    /\ Cardinality(IgnoreWarningsOf(1, "D")) = 1
    /\ Cardinality(VersionsOn(labelIter.entryRows, 2, "D")) = 1
    /\ \E i \in 1..Len(out) : out[i].type = "tag" /\ out[i].labelId = 2 /\ out[i].branch = "D"

\* ---------------------------------------------------------------------- C11

\* The branches on which some surviving entry belongs to a label named name.
BranchesOfName(entryRows, name) ==
    {BranchOf(entryRows[i]) :
        i \in {j \in 1..Len(entryRows) :
                 Survives(entryRows[j]) /\ labelRows[entryRows[j].LabelId] = name}}

\* C11: a Label whose label name appears on more than one branch carries the
\* suffix " [branch]", a Label whose name appears on one branch carries the name
\* unchanged, and Labels yielded for different branches never share a name.
C11_LabelNamesUniquePerBranch ==
    /\ \A i \in 1..Len(labelsYielded) :
          LET lbl  == labelsYielded[i]
              name == labelRows[lbl.labelId]
          IN  lbl.name =
                 IF Cardinality(BranchesOfName(labelIter.entryRows, name)) > 1
                 THEN name \o <<" ", "[", lbl.branch, "]">>
                 ELSE name
    /\ \A i \in 1..Len(labelsYielded) : \A j \in 1..Len(labelsYielded) :
          labelsYielded[i].branch # labelsYielded[j].branch
             => labelsYielded[i].name # labelsYielded[j].name

\* ---------------------------------------------------------------------- C12

\* The changeset id of the progress command that opens the group of command i
\* (0 before the first progress command).
CsOf(i) ==
    LET P == {j \in 1..i : out[j].type = "progress"} IN
    IF P = {} THEN 0 ELSE out[CHOOSE j \in P : \A k \in P : k <= j].cs

\* C12: with stop_after = N > 0 no progress, commit or file command of a
\* changeset with id > N is written, and once the changeset loop has ended every
\* changeset with id <= N has its commits, one per branch of its surviving rows;
\* with stop_after = 0 this holds of every changeset.
C12_StopAfter ==
    /\ stop_after # 0 =>
          \A i \in 1..Len(out) :
              out[i].type \in {"progress", "commit", "D", "M"} => CsOf(i) <= stop_after
    /\ pc \in {"labels", "done"} =>
          \A id \in tbl_ChangeSet :
              (stop_after = 0 \/ id <= stop_after) =>
                  \E n \in 1..Len(fetched) :
                      /\ fetched[n].id = id
                      /\ Cardinality({i \in CommitIdxs : out[i].cs = id})
                            = Cardinality(BranchesOf(fetched[n].rows))
                      /\ \A b \in BranchesOf(fetched[n].rows) :
                            \E i \in CommitIdxs : out[i].cs = id /\ out[i].branch = b

\* A complete run with stop_after = 2 over changesets 1, 2 and MaxCs: two
\* commits for changeset 2, and the loop left at the Changeset of MaxCs.
C12_Witness ==
    /\ pc = "done"
    /\ stop_after = 2
    /\ tbl_ChangeSet = {1, 2, MaxCs}
    /\ Cardinality({i \in CommitIdxs : out[i].cs = 2}) = 2
    /\ Cardinality({i \in CommitIdxs : out[i].cs = 1}) = 1
    /\ yielded # <<>>
    /\ yielded[Len(yielded)].id = MaxCs
    /\ \A i \in 1..Len(out) : out[i].cs # MaxCs

\* ---------------------------------------------------------------------- C13
\* C13: once the block that owns the repository has been left, at the end of the
\* run or with the exception that ended it, and once a TempDir used as a context
\* manager has been left, the scratch directory and all its entries are gone.
C13_ScratchRemovedOnExit ==
    (scope = "left" \/ tdtest.obj = "left") =>
        /\ ~location_exists
        /\ tempdir = <<>>

\* The block is left with the checksum error of a delta revision, whose chain was
\* unpacked to the scratch directory.
C13_Witness ==
    /\ scope = "left"
    /\ pc = "failed"
    /\ error = "checksum mismatch"
    /\ out # <<>>
    /\ out[Len(out)].type = "M"
    /\ out[Len(out)].contentType = 2
    /\ ~location_exists

\* ---------------------------------------------------------------------- C14
\* C14: right after TempDir(location, clear) at a location that exists: without
\* the clear flag the constructor has raised and the directory is as it was; with
\* the flag the directory exists and is empty.
C14_ExistingLocation ==
    (tdtest.last = "init" /\ tdtest.hasLocation /\ tdtest.pre.exists) =>
        IF ~tdtest.clear
        THEN /\ ~tdtest.ok
             /\ Dir(location_exists, tempdir) = tdtest.pre
        ELSE /\ tdtest.ok
             /\ location_exists
             /\ tempdir = <<>>

\* A constructor without the flag has raised over a directory with an entry, and
\* then a constructor with the flag has wiped that directory.
C14_Witness ==
    /\ tdtest.last = "init"
    /\ tdtest.raises = 1
    /\ tdtest.hasLocation
    /\ tdtest.clear
    /\ tdtest.pre.exists
    /\ tdtest.pre.entries # <<>>
    /\ tdtest.ok
    /\ location_exists
    /\ tempdir = <<>>

C16_UnmangleIdempotent ==
    (fn_call.fn = "tfs_unmangle_path" /\ Len(fn_call.results) >= 2) =>
        fn_call.results[2] = fn_call.results[1]

\* The path ends in two backslashes or more.
EndsInTwoBackslashes(x) ==
    Len(x) >= 2 /\ x[Len(x)] = "\\" /\ x[Len(x) - 1] = "\\"

\* C16 amended: tfs_unmangle_path is idempotent on every path that does not end
\* in two backslashes: applied to its own result it returns that result.
C16_UnmangleIdempotentButDoubleBackslash ==
    (fn_call.fn = "tfs_unmangle_path" /\ ~EndsInTwoBackslashes(fn_arg)) =>
        \A k \in 2..Len(fn_call.results) : fn_call.results[k] = fn_call.results[1]

\* A path with a mangled symbol and one trailing backslash has gone through
\* tfs_unmangle_path twice.
C16_Witness ==
    /\ fn_call.fn = "tfs_unmangle_path"
    /\ fn_arg = <<"a", ">", "\\">>
    /\ fn_call.results = <<(<<"a", "_">>), (<<"a", "_">>)>>

\* ---------------------------------------------------------------------- C17
\* What the claim says is written for path p.
QuotedPath(p, quote_spaces) ==
    LET escaped == Flatten([i \in 1..Len(p) |->
                               IF p[i] = "\n" THEN <<"\\", "n">> ELSE <<p[i]>>])
        quoted(x) == <<"\"">> \o x \o <<"\"">>
    IN  IF \E i \in 1..Len(p) : p[i] = "\n" THEN quoted(escaped)
        ELSE IF p # <<>> /\ p[1] = "\"" THEN quoted(p)
        ELSE IF (\E i \in 1..Len(p) : p[i] = " ") /\ quote_spaces THEN quoted(p)
        ELSE p

\* C17: format_path writes a path that contains a newline with each newline
\* escaped as backslash and n and wrapped in double quotes; otherwise a path
\* starting with a double quote wrapped in double quotes; otherwise a path with
\* a space wrapped only when quote_spaces is set; every other path unchanged.
C17_PathQuoting ==
    fn_call.fn = "format_path" =>
        fn_call.results[1] = encode_utf8(QuotedPath(fn_arg, fn_call.quote_spaces))

\* ---------------------------------------------------------------------- C18
\* Errors raised by the block iterator while serialize_data consumes it.
IteratorErrors == {"zlib.error", "checksum mismatch", "FileNotFoundError"}

\* C18: for every file-modify command written, the blob is "data N", the
\* blocks and a newline; where N is not the number of bytes of the blocks
\* written the terminating newline is not written and the run has failed there
\* (with the length mismatch, unless the block iterator itself had raised);
\* where the blob is complete exactly N bytes lie between header and newline.
C18_BlobFraming ==
    \A i \in 1..Len(out) :
        out[i].type = "M" =>
            /\ out[i].size # SumLen(out[i].blocks) =>
                   /\ ~out[i].complete
                   /\ i = Len(out)
                   /\ pc = "failed"
                   /\ error \in IteratorErrors \cup {"fragmented blob length mismatch"}
            /\ (~out[i].complete /\ error \notin IteratorErrors) =>
                   out[i].size # SumLen(out[i].blocks)
            /\ out[i].complete => SumLen(out[i].blocks) = out[i].size

\* A blob was written in full, and the next one, declared one byte longer than
\* its blocks, ended the run.
C18_Witness ==
    /\ pc = "failed"
    /\ error = "fragmented blob length mismatch"
    /\ Len(out) >= 2
    /\ out[Len(out)].type = "M"
    /\ out[Len(out)].size = SumLen(out[Len(out)].blocks) + 1
    /\ ~out[Len(out)].complete
    /\ \E i \in 1..(Len(out) - 1) :
          out[i].type = "M" /\ out[i].complete /\ out[i].size = 3 /\ SumLen(out[i].blocks) = 3

\* ---------------------------------------------------------------------- C19
\* The relative path of a row is missing, empty, or starts with the separator.
IllegalRelpath(relpath) ==
    relpath.isNone \/ relpath.s = <<>> \/ relpath.s[1] \in {"\\", "/"}

\* C19: no file-delete or file-modify command in the stream has a path that is
\* empty or starts with '/'; and once the delete or change loop has reached a
\* row whose relative path is missing, empty or starts with the separator, the
\* run has failed.
C19_NoIllegalPath ==
    /\ \A i \in 1..Len(out) :
          out[i].type \in {"D", "M"} => (out[i].path # <<>> /\ out[i].path[1] # "/")
    /\ (/\ pc \in {"deletes", "changes", "failed"}
        /\ cs # NoChangeset
        /\ rowIdx \in 1..Len(cs.rowsRelPaths)
        /\ IllegalRelpath(cs.rowsRelPaths[rowIdx].relpath)) =>
           /\ pc = "failed"
           /\ error \in {"AttributeError", "ValueError"}
           /\ out[Len(out)].type \in {"commit", "D"}

\* The delete loop reached a row whose relative path starts with a backslash:
\* the run failed with the commit as the last command written.
C19_Witness ==
    /\ pc = "failed"
    /\ error = "ValueError"
    /\ rowIdx \in 1..Len(cs.rowsRelPaths)
    /\ cs.rowsRelPaths[rowIdx].relpath.s = <<"\\", "a">>
    /\ cs.rowsRelPaths[rowIdx].row.DeletionId # 0
    /\ out[Len(out)].type = "commit"

\* ---------------------------------------------------------------------- C20
\* The tuples who_when returned, as written in the stream: [user, serial].
Formatted ==
    {out[i].author : i \in 1..Len(out)} \cup {out[i].committer : i \in 1..Len(out)}
        \cup {out[i].tagger : i \in 1..Len(out)}

\* C20: the hook user_lookup is called at most once per user id, and every
\* author, committer and tagger written for a user is the answer of that one
\* call.
C20_UserLookupOnce ==
    /\ \A i, j \in 1..Len(user_cache.calls) :
          user_cache.calls[i] = user_cache.calls[j] => i = j
    /\ \A w \in Formatted \ {NoWho} :
          /\ w.serial \in 1..Len(user_cache.calls)
          /\ user_cache.calls[w.serial] = w.user

\* Two commits and a tag were written for the same user, another user was
\* looked up in between, and the hook was called twice.
C20_Witness ==
    /\ Len(user_cache.calls) = 2
    /\ \E i, j, k \in 1..Len(out) :
          /\ i < j
          /\ out[i].type = "commit" /\ out[j].type = "commit" /\ out[k].type = "tag"
          /\ out[i].author # NoWho
          /\ out[i].committer = out[j].committer
          /\ out[k].tagger = out[i].committer

\* ---------------------------------------------------------------------- C21
\* C21: for each (branch, version) of merges(), where version is given and no
\* mark is stored under (version, branch) the driver goes on with the last mark
\* issued on the branch instead of failing; where a mark is stored it uses it.
C21_MergeParentRecovery ==
    /\ ~(/\ pc = "failed"
         /\ error = "KeyError"
         /\ cs # NoChangeset
         /\ \A k \in 1..Len(merges(cs)) :
               LET m == merges(cs)[k] IN
               \/ <<m.version, m.branch>> \in DOMAIN marks
               \/ m.branch \in DOMAIN marks_last_issued_per_branch)
    /\ (pc = "deletes" /\ rowIdx = 0 /\ out # <<>> /\ out[Len(out)].type = "commit") =>
          \A k \in 1..Len(merges(cs)) :
             LET m == merges(cs)[k] IN
             (IntTruthy(m.version) /\ <<m.version, m.branch>> \in DOMAIN marks
                 /\ m.branch # cs.branch) =>
                    out[Len(out)].merges[k] = marks[<<m.version, m.branch>>]

\* ---------------------------------------------------------------------- C22
\* The walk of the chain for the requested revision has just completed.
WalkCompleted == walk.phase = "read" /\ walk.walked /\ walk.n = walk.p

DiskMode == walk.FileLength > msdelta_decompress_on_disk_threshold

\* C22: after the reconstruction of a delta-typed revision, in memory mode as in
\* disk mode, the scratch entry named by its file id holds the full text of the
\* chain with the deltas applied in turn.
C22_SameResultInBothModes ==
    WalkCompleted =>
        /\ TdExists(tempdir, walk.rev)
        /\ tempdir[get_path(walk.rev)] = RevisionBytes(item, walk.p)

\* ---------------------------------------------------------------------- C23
\* C23: for a delta-typed revision whose chain is a single group, content()
\* streams that group as full text, in memory mode as in disk mode.
C23_ChainOfOne ==
    \A k \in 1..Len(walk.log) :
        (Len(item) = 1 /\ walk.log[k].walked) =>
            /\ walk.log[k].err = ""
            /\ walk.log[k].data = RevisionBytes(item, 1)

\* ---------------------------------------------------------------------- C24
\* The last request that ended.
LastRequest == walk.log[Len(walk.log)]

\* C24: the entry of a revision is gone once its stream has been read to the
\* end; a request for a revision whose entry is already in scratch walks no
\* chain, streams that entry as it is, and the entry is gone after that too.
C24_ScratchEntriesOfRevisions ==
    /\ (walk.phase = "idle" /\ walk.log # <<>>) => ~TdExists(tempdir, LastRequest.rev)
    /\ (walk.phase = "read" /\ ~walk.walked) => (tempdir = walk.td0 /\ walk.n = 0)
    /\ (walk.phase = "idle" /\ walk.log # <<>> /\ ~LastRequest.walked) =>
          /\ LastRequest.err = ""
          /\ LastRequest.data = walk.td0[get_path(LastRequest.rev)]
          /\ tempdir = TdUnlink(walk.td0, LastRequest.rev)

\* The oldest revision of a chain of three was reconstructed in memory mode and
\* streamed; the request for the middle revision then found its entry, streamed
\* it without a walk, and the entry is gone.
C24_Witness ==
    /\ walk.phase = "idle"
    /\ Len(item) = 3
    /\ Len(walk.log) = 2
    /\ walk.log[1].rev = item[3].FileId /\ walk.log[1].walked /\ walk.log[1].err = ""
    /\ walk.log[2].rev = item[2].FileId /\ ~walk.log[2].walked
    /\ walk.log[2].data = RevisionBytes(item, 2)
    /\ tempdir = <<>>

\* ---------------------------------------------------------------------- C25
\* Names of the scratch entries.
EntryNames(td) == DOMAIN td

\* C25 as stated: at every step of the walk in disk mode the scratch holds,
\* besides what it held before and the delta, only the current base and the
\* target being produced.
C25_DiskModeBaseAndTarget ==
    (walk.phase \in {"unpack", "read"} /\ walk.walked /\ DiskMode /\ walk.n >= 1) =>
        EntryNames(tempdir) \subseteq
            EntryNames(walk.td0) \cup {get_path("delta"), get_path(item[walk.n].FileId)}
                \cup (IF walk.n >= 2 THEN {get_path(item[walk.n - 1].FileId)} ELSE {})

\* C25 amended: at every step of the walk in disk mode the scratch holds,
\* besides what it held before, the newest revision and every revision
\* produced so far, one entry per group walked, and the last delta applied.
C25_DiskModeKeepsEveryRevision ==
    (walk.phase \in {"unpack", "read"} /\ walk.walked /\ DiskMode) =>
        EntryNames(tempdir) =
            EntryNames(walk.td0) \cup {get_path(item[i].FileId) : i \in 1..walk.n}
                \cup (IF walk.n >= 2 THEN {get_path("delta")} ELSE {})

\* A chain of three groups has been walked in disk mode from an empty scratch
\* directory: three revisions and the delta are held.
C25_Witness ==
    /\ WalkCompleted
    /\ DiskMode
    /\ walk.p = 3
    /\ walk.td0 = <<>>
    /\ Cardinality(EntryNames(tempdir)) = 4
    /\ tempdir[get_path(walk.rev)] = RevisionBytes(item, 3)

\* ---------------------------------------------------------------------- C26
\* C26: the MD5ValidatingIterator returns the blocks of the wrapped sequence
\* unchanged and in order; it raises the checksum mismatch only when the wrapped
\* sequence is exhausted, and then exactly when the MD5 of all blocks differs
\* from the declared digest; with a matching digest the iteration ends with
\* StopIteration.
C26_ChecksumAtEndOfStream ==
    it.kind = "MD5ValidatingIterator" =>
        /\ it.returned = SubSeq(it.src, 1, Len(it.returned))
        /\ it.last.result = "value" => it.last.value = it.src[Len(it.returned)]
        /\ it.last.result = "checksum mismatch" =>
              (it.returned = it.src /\ md5(Join(it.src)) # it.checksum)
        /\ it.last.result = "StopIteration" =>
              (it.returned = it.src /\ md5(Join(it.src)) = it.checksum)

\* Three blocks, one of them empty, came through and the perturbed digest was
\* refused at the end of the stream.
C26_Witness ==
    /\ it.kind = "MD5ValidatingIterator"
    /\ it.src = <<Run(1, 1), <<>>, Run(2, 0)>>
    /\ it.returned = it.src
    /\ it.checksum = Perturbed(md5(Join(it.src)))
    /\ it.last.result = "checksum mismatch"

\* ---------------------------------------------------------------------- C28
\* C28: next returns the wrapped sequence element by element whatever peeks
\* come in between; peek returns the element the next call of next will return
\* and consumes nothing, so repeated peeks return the same element; peek on an
\* exhausted iterator raises StopIteration.
C28_Peekable ==
    it.kind = "PeekableIterator" =>
        /\ it.returned = SubSeq(it.src, 1, Len(it.returned))
        /\ (it.last.op = "peek" /\ it.last.result = "value") =>
              /\ Len(it.returned) < Len(it.src)
              /\ it.last.value = it.src[Len(it.returned) + 1]
              /\ PeekableIterator_next(it).last.value = it.last.value
        /\ (it.last.op = "peek" /\ it.last.result = "StopIteration") =>
              it.returned = it.src
        /\ (it.last.op = "peek" /\ it.returned = it.src) =>
              it.last.result = "StopIteration"
        /\ (it.last.op = "next" /\ it.last.result = "StopIteration") =>
              it.returned = it.src

\* Over [11, 22, 0]: 11 and 22 were returned by next, and the falsy last
\* element has been peeked.
C28_Witness ==
    /\ it.kind = "PeekableIterator"
    /\ it.src = <<11, 22, 0>>
    /\ it.returned = <<11, 22>>
    /\ it.last = CallResult("peek", "value", 0)

\* ---------------------------------------------------------------------- C27
\* The source branch of a merge row.
SourceBranchOf(row) == branch_extract(tfs_unmangle_path(row.SourceFullPath))

\* merges() of the current commit yields exactly one pair per source branch of
\* the merge rows in R (indices into cs.mergerows), with the greatest
\* SourceVersionTo below cs.id over the rows of that branch, or None.
MergesOver(R) ==
    LET m == merges(cs)
        branchOf(i) == SourceBranchOf(cs.mergerows[i]).branch
        versions(b) == {cs.mergerows[i].SourceVersionTo : i \in {x \in R :
                           branchOf(x) = b /\ cs.mergerows[x].SourceVersionTo < cs.id}}
    IN  /\ {m[k].branch : k \in 1..Len(m)} = {branchOf(i) : i \in R}
        /\ \A j, k \in 1..Len(m) : m[j].branch = m[k].branch => j = k
        /\ \A k \in 1..Len(m) :
              m[k].version = IF versions(m[k].branch) # {} THEN Max(versions(m[k].branch))
                             ELSE NoneInt

\* C27: merges() of a commit yields exactly one pair per source branch among the
\* commit's merge rows: the branch with the greatest SourceVersionTo below the
\* commit's changeset id over the rows of that source branch, or with None when
\* no row of that source branch has SourceVersionTo below the changeset id.
C27_MergesPerSourceBranch ==
    cs # NoChangeset =>
        MergesOver({i \in 1..Len(cs.mergerows) : SourceBranchOf(cs.mergerows[i]).branch # None})

\* C27 as the code has it: the merge rows that count are those whose source path
\* split_and_filter_file_rows keeps, so a row whose source file fails file_filter
\* counts neither for its branch nor for the maximum.
C27_MergesPerKeptSourceBranch ==
    cs # NoChangeset =>
        MergesOver({i \in 1..Len(cs.mergerows) :
                       KeepRow(SourceBranchOf(cs.mergerows[i]).branch,
                               SourceBranchOf(cs.mergerows[i]).relpath)})

\* The commit of changeset 3 on M has been written with one merge parent: of its
\* two merge rows from D, the one of SourceVersionTo 2 has a filtered source
\* file, and merges() gave (D, 1).
C27_Witness ==
    /\ pc = "deletes" /\ rowIdx = 0
    /\ out # <<>> /\ out[Len(out)].type = "commit" /\ out[Len(out)].cs = 3
    /\ cs.id = 3 /\ cs.branch = "M"
    /\ cs.mergerows = <<MergeRow(pMa, pDa, 1), MergeRow(pMa, pDbak, 2)>>
    /\ merges(cs) = <<[branch |-> "D", version |-> 1]>>
    /\ Len(out[Len(out)].merges) = 1

\* ---------------------------------------------------------------------- C29
\* C29: no two commit commands of the stream carry the same mark, and the mark
\* table holds no mark under two different (changeset id, branch) keys.
C29_MarksUnique ==
    /\ \A i \in CommitIdxs : \A j \in CommitIdxs : out[i].mark = out[j].mark => i = j
    /\ \A k1 \in DOMAIN marks : \A k2 \in DOMAIN marks : marks[k1] = marks[k2] => k1 = k2
====
